---- MODULE Spec2Model ----
(***************************************************************************)
(* The daily-digest pipeline of smia-agent: the claim RPC, the entry       *)
(* points that call it (GET /today, Telegram /digest, the CLI), the        *)
(* collectors phase, the hand-off to the analysis phase and the analysis   *)
(* phase, all acting on the shared store (daily_digests,                   *)
(* digest_collector_cache).  Every invocation is an independent execution  *)
(* context; contexts interleave at their store and network calls.          *)
(***************************************************************************)
EXTENDS Integers, Sequences, FiniteSets, TLC

\* ------------------------------------------------------------------ bounds
MaxProcs == 2        \* entry-point invocations (each may get a sibling context)
MaxTicks == 1        \* times the calendar date changes during a behaviour
MaxItems == 1        \* items one collect() call returns at most
NumCollectors == 1   \* collectors registered when the whole pipeline runs

Procs == 1 .. MaxProcs
\* context p is the invocation of entry point p; context p + MaxProcs is the
\* invocation of POST /internal/analyze that p's hand-off call creates
Sibling(p) == p + MaxProcs
Ctx == 1 .. (2 * MaxProcs)

\* the collectors that register themselves on import, in a fixed order
RegistryOrder == <<"arxiv", "github", "rss", "bluesky">>
Registered(n) == { RegistryOrder[i] : i \in (1 .. n) \cap DOMAIN RegistryOrder }

Reasons == {"timeout"}
NoId == 0

VARIABLES
  COLLECTOR_REGISTRY,  \* the process-wide registry: the names registered
  clock,      \* the calendar day date.today() returns
  ticks,      \* how many times the day has changed
  settings,   \* the configuration object the service module reads
  digests,    \* table daily_digests: id -> row
  nextId,     \* next id the store gives a new daily_digests row
  cache,      \* table digest_collector_cache: <<digest_date, source>> -> row
  pc,         \* control point of invocation p
  result,     \* what invocation p received from its claim
  kp,         \* locals of run_collectors_phase in invocation p
  tp,         \* locals and observations of _trigger_analysis_phase in p
  ap,         \* locals of run_analysis_phase in context c
  obs,        \* observations: what each Run has been through
  utcnow,     \* the instant datetime.now(timezone.utc) returns, in hours
  fetch_cache,     \* table fetch_cache: its rows
  analysis_cache,  \* table analysis_cache: its rows
  call,       \* the last call of a function of services/cache.py
  tool,       \* locals and observations of one fetch tool invocation
  other,      \* the same for a second invocation running at the same time
  req         \* locals and observations of the requests in analyze_topic

\* the state of the daily-digest pipeline, and the state of topic analysis
digestVars == <<COLLECTOR_REGISTRY, clock, ticks, settings, digests, nextId,
                cache, pc, result, kp, tp, ap, obs>>
topicVars == <<utcnow, fetch_cache, analysis_cache, call, tool, other, req>>
vars == <<digestVars, topicVars>>

\* ------------------------------------------------------------- the store
\* what a caller keeps of the answer it received: after its decision on the
\* answer it only uses digest_id
NoResult == [claimed |-> FALSE, digest_id |-> NoId]
Kept(r) == [claimed |-> r.claimed, digest_id |-> r.digest_id]

Live == DOMAIN digests

NoHealth == [c \in COLLECTOR_REGISTRY |-> "absent"]

\* UPDATE daily_digests SET ... WHERE id = i: no row, no effect
UpdateDigest(ds, i, fields) ==
  IF i \in DOMAIN ds
  THEN [ds EXCEPT ![i] =
          [f \in DOMAIN ds[i] |->
             IF f \in DOMAIN fields THEN fields[f] ELSE ds[i][f]]]
  ELSE ds

\* a claim without the existence test: every call inserts a row and answers
\* claimed
ClaimBrokenRpc(ds, nid, d, now) ==
  [digests |-> (nid :> [digest_date |-> d, status |-> "collecting",
                         created_at |-> now, source_health |-> NoHealth,
                         total_items |-> 0, has_result |-> FALSE]) @@ ds,
   nextId |-> nid + 1,
   row |-> [claimed |-> TRUE, digest_id |-> nid,
            current_status |-> "collecting"]]

\* claim_digest_generation(p_date): one transaction.  Insert the day's row in
\* status collecting if the day has none and answer claimed; otherwise answer
\* the existing row's id and status, not claimed.
claim_digest_generation(ds, nid, d, now) ==
  IF \E i \in DOMAIN ds : ds[i].digest_date = d
  THEN LET i == CHOOSE j \in DOMAIN ds : ds[j].digest_date = d
       IN [digests |-> ds, nextId |-> nid,
           row |-> [claimed |-> FALSE, digest_id |-> i,
                    current_status |-> ds[i].status]]
  ELSE [digests |-> (nid :> [digest_date |-> d, status |-> "collecting",
                              created_at |-> now, source_health |-> NoHealth,
                              total_items |-> 0, has_result |-> FALSE]) @@ ds,
        nextId |-> nid + 1,
        row |-> [claimed |-> TRUE, digest_id |-> nid,
                 current_status |-> "collecting"]]

\* ------------------------------------------------- claim_or_get_digest
\* a result that says claimed whatever the RPC answered
ClaimResultAlwaysClaimed(r) ==
  [status |-> "collecting", digest_id |-> r.digest_id, claimed |-> TRUE,
   has_digest |-> FALSE]

\* what claim_or_get_digest returns for the RPC's answer; a dict without the
\* key "claimed" reads as claimed = FALSE through result.get("claimed")
claim_or_get_digest(r) ==
  IF ~r.claimed
  THEN IF r.current_status = "completed"
       THEN [status |-> "completed", digest_id |-> r.digest_id,
             claimed |-> FALSE, has_digest |-> TRUE]
       ELSE [status |-> r.current_status, digest_id |-> r.digest_id,
             claimed |-> FALSE, has_digest |-> FALSE]
  ELSE [status |-> "collecting", digest_id |-> r.digest_id, claimed |-> TRUE,
        has_digest |-> FALSE]

\* ------------------------------------------------------- local records
NoKp == [digest_id |-> NoId, today |-> 0, started |-> FALSE,
         to_run |-> {}, all_items |-> <<>>, source_health |-> NoHealth,
         cached |-> <<>>, oc |-> <<>>,
         calls |-> [c \in COLLECTOR_REGISTRY |-> 0],
         returned |-> FALSE, ret |-> "done"]

\* the locals of _run_collectors are gone once run_collectors_phase has used
\* its result
Forget(k) == [NoKp EXCEPT !.digest_id = k.digest_id, !.started = k.started,
                          !.ret = k.ret]

\* _trigger_analysis_phase: post, how the deployment at the app URL has
\* answered the hand-off request while the poster waits for the answer
\* ("none": the request has not arrived); while its inline call runs, where
\* the call was made from and how many inline calls this execution has made
NoTp == [site |-> "none", inline |-> 0, post |-> "none"]
NoAp == [pc |-> "idle", digest_id |-> NoId]
\* a context whose run_analysis_phase has ended: how it ended remains for the
\* caller that awaits it; the request that a hand-off created has no caller
Ended(c, how) == IF c \in Procs THEN [NoAp EXCEPT !.pc = how] ELSE NoAp
StartAnalysis(id) == [NoAp EXCEPT !.pc = "start", !.digest_id = id]

\* what each Run has been through: analyze[i], the sizes of the item lists
\* analyze_digest was called with for Run i (line 246), selected[i], the dates
\* run_analysis_phase selected collector-cache rows by for Run i (line 223),
\* and emptyMerge, the Runs whose collection phase merged no item

\* no topic analysis is going on: both tiers of the cache are empty
NoCall == [fn |-> "none"]
NoTool == [pc |-> "idle"]
\* the requests analyze_topic is given in a behaviour
MaxReqs == 2
Reqs == 1 .. MaxReqs
NoReqs == [i \in Reqs |-> [pc |-> "idle"]]
TopicIdle ==
  /\ utcnow = 0
  /\ fetch_cache = {}
  /\ analysis_cache = {}
  /\ call = NoCall
  /\ tool = NoTool
  /\ other = NoTool
  /\ req = NoReqs

InitDigest ==
  /\ COLLECTOR_REGISTRY = Registered(NumCollectors)
  /\ clock = 1
  /\ ticks = 0
  \* "missing": the settings object has no attribute effective_app_url, as
  \* the Settings class of core/config.py; "" and "url": it has, empty or not
  /\ settings \in [effective_app_url : {"missing", "", "url"}]
  /\ digests = <<>>
  /\ nextId = 1
  /\ cache = <<>>
  /\ pc = [p \in Procs |-> "idle"]
  /\ result = [p \in Procs |-> NoResult]
  /\ kp = [p \in Procs |-> NoKp]
  /\ tp = [p \in Procs |-> NoTp]
  /\ ap = [c \in Ctx |-> NoAp]
  /\ obs = [analyze |-> <<>>, selected |-> <<>>, emptyMerge |-> {}]

Init == InitDigest /\ TopicIdle

\* the calendar date changes
Tick ==
  /\ ticks < MaxTicks
  /\ clock' = clock + 1
  /\ ticks' = ticks + 1
  /\ UNCHANGED <<topicVars, COLLECTOR_REGISTRY, settings, digests, nextId, cache,
                 pc, result, kp, tp, ap, obs>>

\* invocations are numbered in the order in which they start
Starts(p) == pc[p] = "idle" /\ \A q \in Procs : q < p => pc[q] # "idle"

\* the RPC at this moment; a new Run gets its observation slot
Answer == claim_digest_generation(digests, nextId, clock, clock)

Rpc ==
  /\ digests' = Answer.digests
  /\ nextId' = Answer.nextId
  /\ obs' = IF Answer.row.claimed
            THEN [obs EXCEPT !.analyze = Append(@, <<>>),
                             !.selected = Append(@, {})]
            ELSE obs

\* run_collectors_phase(digest_id) is entered by invocation p
EnterCollectors(p, id, ret) ==
  /\ pc' = [pc EXCEPT ![p] = "k_read"]
  /\ kp' = [kp EXCEPT ![p] = [NoKp EXCEPT !.digest_id = id, !.started = TRUE,
                                          !.ret = ret]]

\* GET /today: claim, and on a won claim schedule run_collectors_phase
get_today_digest(p) ==
  /\ Starts(p)
  /\ Rpc
  /\ LET res == claim_or_get_digest(Answer.row)
     IN /\ result' = [result EXCEPT ![p] = Kept(res)]
        /\ IF res.claimed
           THEN EnterCollectors(p, res.digest_id, "done")
           ELSE /\ pc' = [pc EXCEPT ![p] = "done"]
                /\ kp' = kp
  /\ UNCHANGED <<topicVars, COLLECTOR_REGISTRY, clock, ticks, settings, cache, tp, ap>>

\* the chain with the claimed test first
DigestBranchClaimedFirst(res) ==
  IF res.claimed THEN "trigger"
  ELSE IF res.status = "completed" THEN "show"
  ELSE IF res.status \in {"collecting", "analyzing"} THEN "pending"
  ELSE "unavailable"

\* which branch of handle_digest's if/elif chain the result takes
DigestBranch(res) ==
  IF res.status = "completed" THEN "show"
  ELSE IF res.status \in {"collecting", "analyzing"} THEN "pending"
  ELSE IF res.claimed THEN "trigger"
  ELSE "unavailable"

\* Telegram /digest for a bound user with digest access
handle_digest(p) ==
  /\ Starts(p)
  /\ Rpc
  /\ LET res == claim_or_get_digest(Answer.row)
     IN /\ result' = [result EXCEPT ![p] = Kept(res)]
        /\ IF DigestBranch(res) = "trigger"
           THEN \* POST /internal/collect, or inline without an app URL; a
                \* failure of either is logged and nothing runs
                \E delivered \in BOOLEAN :
                  IF settings.effective_app_url = "missing"
                     \/ (settings.effective_app_url = "url" /\ ~delivered)
                  THEN /\ pc' = [pc EXCEPT ![p] = "done"]
                       /\ kp' = kp
                  ELSE EnterCollectors(p, res.digest_id, "done")
           ELSE /\ pc' = [pc EXCEPT ![p] = "done"]
                /\ kp' = kp
  /\ UNCHANGED <<topicVars, COLLECTOR_REGISTRY, clock, ticks, settings, cache, tp, ap>>

\* a decision that collects on a won claim only
CliRunsCollectorsOnlyIfClaimed(r) == r.claimed

\* the CLI's decision after its own RPC call
CliRunsCollectors(r) == r.claimed \/ r.current_status = "collecting"

\* python -m cli.run_digest, up to the collectors phase
main(p) ==
  /\ Starts(p)
  /\ Rpc
  /\ LET r == Answer.row
     IN /\ result' = [result EXCEPT ![p] = Kept(r)]
        /\ IF ~r.claimed /\ r.current_status = "completed"
           THEN /\ pc' = [pc EXCEPT ![p] = "done"]
                /\ kp' = kp
           ELSE IF CliRunsCollectors(r)
                THEN EnterCollectors(p, r.digest_id, "cli_status")
                ELSE /\ pc' = [pc EXCEPT ![p] = "cli_status"]
                     /\ kp' = kp
  /\ UNCHANGED <<topicVars, COLLECTOR_REGISTRY, clock, ticks, settings, cache, tp, ap>>

\* ------------------------------------------------------ _run_collectors
\* what one collect() call does: raise with a reason, or return n items
Outcomes == [exc : Reasons, n : {0}] \cup [exc : {"none"}, n : 0 .. MaxItems]
Raised(o) == o.exc # "none"

\* the items collector c returns when it returns n of them
ItemsOf(c, n) == [i \in 1 .. n |-> <<c, i>>]

\* f maps each registered collector to a list; the lists in registry order
RECURSIVE Merge(_, _)
Merge(f, i) ==
  IF i > Len(RegistryOrder) THEN <<>>
  ELSE (IF RegistryOrder[i] \in DOMAIN f THEN f[RegistryOrder[i]] ELSE <<>>)
       \o Merge(f, i + 1)

\* a read that finds no row
CachedSourcesNone(rows, d) == {}

\* the cache rows of run key d: source -> row
CachedSources(rows, d) ==
  { c \in COLLECTOR_REGISTRY : <<d, c>> \in DOMAIN rows }

\* scheduling that ignores the cache
CollectorsToRunAll(cached) == COLLECTOR_REGISTRY

\* the collectors whose collect() is scheduled, given the cached sources
CollectorsToRun(cached) == COLLECTOR_REGISTRY \ cached

\* a health string that does not tell a raised result from a returned one
HealthAlwaysOk(o) == "ok"

\* the health string recorded for a collector that ran
FreshHealth(o) == IF Raised(o) THEN "failed: " \o o.exc ELSE "ok"

\* a merge that does not tell a raised result from a returned one
FreshItemsIgnoreFailure(c, o) ==
  IF Raised(o) THEN ItemsOf(c, MaxItems) ELSE ItemsOf(c, o.n)

\* what a collector that ran adds to all_items
FreshItems(c, o) == IF Raised(o) THEN <<>> ELSE ItemsOf(c, o.n)

\* the first half of _run_collectors: read the cache, take the cached items
ReadCache(rows, d) ==
  LET cached == CachedSources(rows, d)
  IN [cached |-> [c \in cached |-> rows[<<d, c>>].items],
      all_items |-> Merge([c \in COLLECTOR_REGISTRY |->
                             IF c \in cached THEN rows[<<d, c>>].items
                             ELSE <<>>], 1),
      source_health |-> [c \in COLLECTOR_REGISTRY |->
                           IF c \in cached THEN "ok (cached)" ELSE "absent"],
      to_run |-> CollectorsToRun(cached)]

\* upsert on (digest_date, source): collected_at is set when the row is new
Upsert(rows, d, c, items, now) ==
  IF <<d, c>> \in DOMAIN rows
  THEN [rows EXCEPT ![<<d, c>>].items = items]
  ELSE (<<d, c>> :> [items |-> items, collected_at |-> now]) @@ rows

RECURSIVE UpsertAll(_, _, _, _, _, _)
UpsertAll(rows, d, oc, written, now, i) ==
  IF i > Len(RegistryOrder) THEN rows
  ELSE LET c == RegistryOrder[i]
       IN UpsertAll(IF c \in written
                    THEN Upsert(rows, d, c, FreshItems(c, oc[c]), now)
                    ELSE rows,
                    d, oc, written, now, i + 1)

\* the second half: oc is the outcome of every scheduled collect()
GatherItems(k, oc) ==
  k.all_items \o Merge([c \in COLLECTOR_REGISTRY |->
                          IF c \in k.to_run THEN FreshItems(c, oc[c])
                          ELSE <<>>], 1)

GatherHealth(k, oc) ==
  [c \in COLLECTOR_REGISTRY |->
     IF c \in k.to_run THEN FreshHealth(oc[c]) ELSE k.source_health[c]]

\* -------------------------------------------------- run_collectors_phase
\* the except branch (lines 102-107), entered by an exception anywhere in the
\* phase: it writes failed; if that write fails too, the exception leaves the
\* phase (handled = FALSE) and ends the invocation (pc = "raised")
CollectExcept(p, handled) ==
  /\ digests' = IF handled
                THEN UpdateDigest(digests, kp[p].digest_id,
                                  [status |-> "failed"])
                ELSE digests
  /\ pc' = [pc EXCEPT ![p] = IF handled THEN kp[p].ret ELSE "raised"]
  /\ kp' = [kp EXCEPT ![p] = Forget(kp[p])]

\* the cache read of _run_collectors (lines 71-134)
CollectRead(p) ==
  /\ pc[p] = "k_read"
  /\ \E ok \in BOOLEAN :
       IF ok
       THEN LET r == ReadCache(cache, clock)
            IN /\ kp' = [kp EXCEPT ![p].today = clock,
                                   ![p].cached = r.cached,
                                   ![p].all_items = r.all_items,
                                   ![p].source_health = r.source_health,
                                   ![p].to_run = r.to_run]
               /\ pc' = [pc EXCEPT ![p] = "k_gather"]
               /\ digests' = digests
       ELSE \E handled \in BOOLEAN : CollectExcept(p, handled)
  /\ UNCHANGED <<topicVars, COLLECTOR_REGISTRY, clock, ticks, settings, nextId, cache,
                 result, tp, ap,
                 obs>>

\* the scheduled collectors run and their results are merged and cached
\* (lines 136-162); a failed cache write is logged and swallowed
CollectGather(p) ==
  /\ pc[p] = "k_gather"
  /\ \E oc \in [kp[p].to_run -> Outcomes] :
     \E lost \in SUBSET { c \in kp[p].to_run : ~Raised(oc[c]) } :
       LET k == kp[p]
           written == { c \in k.to_run : ~Raised(oc[c]) } \ lost
       IN /\ kp' = [kp EXCEPT
                      ![p].oc = oc,
                      ![p].all_items = GatherItems(k, oc),
                      ![p].source_health = GatherHealth(k, oc),
                      ![p].calls = [c \in COLLECTOR_REGISTRY |->
                                      IF c \in k.to_run THEN k.calls[c] + 1
                                      ELSE k.calls[c]],
                      ![p].returned = TRUE]
          /\ cache' = UpsertAll(cache, k.today, oc, written, clock, 1)
  /\ pc' = [pc EXCEPT ![p] = "k_update"]
  /\ UNCHANGED <<topicVars, COLLECTOR_REGISTRY, clock, ticks, settings, digests, nextId,
                 result, tp, ap,
                 obs>>

\* the status write that ends the collection (lines 81-97)
CollectUpdate(p) ==
  LET k == kp[p]
      empty == k.all_items = <<>>
  IN /\ pc[p] = "k_update"
     /\ \E ok \in BOOLEAN :
          IF ~ok
          THEN /\ \E handled \in BOOLEAN : CollectExcept(p, handled)
               /\ obs' = IF empty
                         THEN [obs EXCEPT !.emptyMerge = @ \cup {k.digest_id}]
                         ELSE obs
          ELSE IF empty
          THEN /\ digests' = UpdateDigest(digests, k.digest_id,
                               [status |-> "failed",
                                source_health |-> k.source_health])
               /\ pc' = [pc EXCEPT ![p] = k.ret]
               /\ kp' = [kp EXCEPT ![p] = Forget(k)]
               /\ obs' = [obs EXCEPT !.emptyMerge = @ \cup {k.digest_id}]
          ELSE /\ digests' = UpdateDigest(digests, k.digest_id,
                               [status |-> "analyzing",
                                source_health |-> k.source_health,
                                total_items |-> Len(k.all_items)])
               /\ pc' = [pc EXCEPT ![p] = "k_trigger"]
               /\ kp' = [kp EXCEPT ![p] = Forget(k)]
               /\ obs' = obs
     /\ UNCHANGED <<topicVars, COLLECTOR_REGISTRY, clock, ticks, settings, nextId,
                    cache, result, tp, ap>>

\* -------------------------------------------------- _trigger_analysis_phase
\* how `await client.post(...)` (lines 179-183) ends for the poster: with the
\* answer 200, with another status, with an exception and no task added
\* (the request failed, or the answer to a refused request was lost), with
\* an exception (a time-out) after the route added its task
PostOutcomes == {"200", "non200", "raised", "raised_delivered"}

\* where _trigger_analysis_phase goes after reading the app URL and, with a
\* URL, after the POST (lines 167-193)
TriggerRoute(app_url, post) ==
  IF app_url = "missing" THEN "attribute_error"
  ELSE IF app_url = "" THEN "inline_no_url"
  ELSE IF post = "200" THEN "handed_off"
  ELSE IF post = "non200" THEN "inline_try"
  ELSE "inline_except"

\* the hand-off request of p, sent at line 179, reaches POST
\* /internal/analyze while p is suspended in `await client.post`: the route
\* answers 200 after background_tasks.add_task(run_analysis_phase,
\* digest_id) (routes/ai_daily_report.py, lines 246-255), and its task runs
\* in the sibling context from then on, or the deployment answers another
\* status and adds no task.  The poster goes on in a later step.
PostInternalAnalyze(p) ==
  /\ pc[p] = "k_trigger"
  /\ settings.effective_app_url = "url"
  /\ tp[p].post = "none"
  /\ \E answer \in {"200", "non200"} :
       /\ tp' = [tp EXCEPT ![p].post = answer]
       /\ ap' = IF answer = "200"
                THEN [ap EXCEPT ![Sibling(p)] =
                        StartAnalysis(kp[p].digest_id)]
                ELSE ap
  /\ UNCHANGED <<topicVars, COLLECTOR_REGISTRY, clock, ticks, settings, digests,
                 nextId, cache, pc, result, kp, obs>>

\* _trigger_analysis_phase up to its first inline call or its return: the
\* read of the app URL (line 167) and, with a URL, the end of
\* `await client.post`, whose outcome is one that the answer so far allows
TriggerAnalysisPhase(p) ==
  LET k == kp[p]
      allowed == IF tp[p].post = "200" THEN {"200", "raised_delivered"}
                 ELSE IF tp[p].post = "non200" THEN {"non200", "raised"}
                 ELSE {"raised"}
  IN /\ pc[p] = "k_trigger"
     /\ \E post \in PostOutcomes \cap allowed :
          LET route == TriggerRoute(settings.effective_app_url, post)
              inline == route \in {"inline_no_url", "inline_try",
                                   "inline_except"}
          IN /\ tp' = [tp EXCEPT ![p] =
                         IF inline
                         THEN [NoTp EXCEPT !.site = route, !.inline = 1]
                         ELSE NoTp]
             /\ ap' = IF inline
                      THEN [ap EXCEPT ![p] = StartAnalysis(k.digest_id)]
                      ELSE ap
             /\ IF route = "attribute_error"
                THEN \E handled \in BOOLEAN : CollectExcept(p, handled)
                ELSE /\ digests' = digests
                     /\ pc' = [pc EXCEPT ![p] = IF inline THEN "k_inline"
                                                ELSE k.ret]
                     /\ kp' = kp
     /\ UNCHANGED <<topicVars, COLLECTOR_REGISTRY, clock, ticks, settings, nextId, cache,
                    result, obs>>

\* the inline run_analysis_phase has returned or raised: an exception inside
\* the try block reaches the except branch, which runs the phase again
TriggerInlineEnd(p) ==
  LET k == kp[p]
      a == ap[p]
  IN /\ pc[p] = "k_inline"
     /\ a.pc \in {"ret", "raise"}
     /\ IF a.pc = "ret"
        THEN /\ pc' = [pc EXCEPT ![p] = k.ret]
             /\ kp' = kp
             /\ ap' = [ap EXCEPT ![p] = NoAp]
             /\ tp' = [tp EXCEPT ![p] = NoTp]
             /\ digests' = digests
        ELSE IF tp[p].site = "inline_try"
        THEN /\ pc' = pc
             /\ kp' = kp
             /\ ap' = [ap EXCEPT ![p] = StartAnalysis(k.digest_id)]
             /\ tp' = [tp EXCEPT ![p].inline = @ + 1,
                                 ![p].site = "inline_except"]
             /\ digests' = digests
        ELSE /\ \E handled \in BOOLEAN : CollectExcept(p, handled)
             /\ ap' = [ap EXCEPT ![p] = NoAp]
             /\ tp' = [tp EXCEPT ![p] = NoTp]
     /\ UNCHANGED <<topicVars, COLLECTOR_REGISTRY, clock, ticks, settings, nextId,
                    cache, result, obs>>

\* ---------------------------------------------------- run_analysis_phase
\* trace_metadata (core/langfuse_config.py, lines 50-55) has a required
\* parameter user_id: a call that does not give it raises TypeError before
\* the body runs
trace_metadata(keywords) ==
  IF "user_id" \in keywords THEN "ok" ELSE "TypeError"

\* the except branch (lines 288-296): it writes failed; if that write fails
\* too, the exception leaves the phase (handled = FALSE)
AnalysisExcept(c, handled) ==
  /\ digests' = IF handled
                THEN UpdateDigest(digests, ap[c].digest_id,
                                  [status |-> "failed"])
                ELSE digests
  /\ ap' = [ap EXCEPT ![c] = Ended(c, IF handled THEN "ret" ELSE "raise")]

\* run_analysis_phase (lines 201-296).  The store client is made outside the
\* try (line 203); the first statement inside it is
\* trace_metadata(tags=["digest", "analysis"]) (line 208), which raises
\* TypeError on every execution, so control goes to the except branch from
\* there: the key check, the cache read, analyze_digest, the completed write
\* and the retention sweep (lines 210-286) are never reached and no step of
\* this model stands for them.
run_analysis_phase(c) ==
  /\ ap[c].pc = "start"
  /\ trace_metadata({"tags"}) = "TypeError"
  /\ \E handled \in BOOLEAN : AnalysisExcept(c, handled)
  /\ UNCHANGED <<topicVars, COLLECTOR_REGISTRY, clock, ticks, settings, nextId,
                 cache, pc, result, kp, tp, obs>>

\* ---------------------------------------------------------- the CLI, end
\* the status check after the collectors phase (lines 48-60); the select
\* raises when the store call fails (ok = FALSE) and .single() raises when
\* the row is gone: the exception leaves main and nothing more runs
CliStatus(p) ==
  LET id == result[p].digest_id
  IN /\ pc[p] = "cli_status"
     /\ \E ok \in BOOLEAN :
          IF ok /\ id \in Live /\ digests[id].status = "analyzing"
          THEN /\ ap' = [ap EXCEPT ![p] = StartAnalysis(id)]
               /\ pc' = [pc EXCEPT ![p] = "cli_analysis"]
          ELSE /\ ap' = ap
               /\ pc' = [pc EXCEPT ![p] = "done"]
     /\ UNCHANGED <<topicVars, COLLECTOR_REGISTRY, clock, ticks, settings, digests,
                    nextId, cache, result,
                    kp, tp, obs>>

CliAnalysisEnd(p) ==
  /\ pc[p] = "cli_analysis"
  /\ ap[p].pc \in {"ret", "raise"}
  /\ pc' = [pc EXCEPT ![p] = "done"]
  /\ ap' = [ap EXCEPT ![p] = NoAp]
  /\ UNCHANGED <<topicVars, COLLECTOR_REGISTRY, clock, ticks, settings, digests, nextId,
                 cache, result,
                 kp, tp, obs>>

\* ------------------------------------------------------ the specification
Phases ==
  \/ \E p \in Procs : get_today_digest(p)
  \/ \E p \in Procs : handle_digest(p)
  \/ \E p \in Procs : main(p)
  \/ \E p \in Procs : CollectRead(p)
  \/ \E p \in Procs : CollectGather(p)
  \/ \E p \in Procs : CollectUpdate(p)
  \/ \E p \in Procs : PostInternalAnalyze(p)
  \/ \E p \in Procs : TriggerAnalysisPhase(p)
  \/ \E p \in Procs : TriggerInlineEnd(p)
  \/ \E c \in Ctx : run_analysis_phase(c)
  \/ \E p \in Procs : CliStatus(p)
  \/ \E p \in Procs : CliAnalysisEnd(p)

\* one calendar day: invocations interleave, the date does not change
Next == Phases

Spec == Init /\ [][Next]_vars

\* every execution context that has started goes on until it ends: a step
\* that is possible is taken, since every await returns, fails or times out.
\* Requests arrive when they like: the entry points are under no fairness.
Fairness ==
  /\ \A p \in Procs :
       /\ WF_vars(CollectRead(p))
       /\ WF_vars(CollectGather(p))
       /\ WF_vars(CollectUpdate(p))
       /\ WF_vars(TriggerAnalysisPhase(p))
       /\ WF_vars(TriggerInlineEnd(p))
       /\ WF_vars(CliStatus(p))
       /\ WF_vars(CliAnalysisEnd(p))
  /\ \A c \in Ctx :
       WF_vars(run_analysis_phase(c))

SpecLive == Init /\ [][Next]_vars /\ Fairness

\* the date changes between and during invocations
NextDays == Tick \/ Phases

SpecDays == Init /\ [][NextDays]_vars

\* ------------------------------------------------ _run_collectors alone
\* one execution of the collectors phase with every collector registered,
\* started on a Run in status collecting whose key has cache rows for any
\* subset of the sources (left by an earlier execution for the same key)
Runner == CHOOSE p \in Procs : \A q \in Procs : p <= q

InitRunner ==
  /\ COLLECTOR_REGISTRY = Registered(Len(RegistryOrder))
  /\ clock = 1
  /\ ticks = 0
  /\ settings \in [effective_app_url : {""}]
  /\ digests = (1 :> [digest_date |-> 1, status |-> "collecting",
                      created_at |-> 1, source_health |-> NoHealth,
                      total_items |-> 0, has_result |-> FALSE])
  /\ nextId = 2
  /\ \E S \in SUBSET COLLECTOR_REGISTRY :
     \E n \in [COLLECTOR_REGISTRY -> 0 .. MaxItems] :
       cache = [k \in { <<1, c>> : c \in S } |->
                  [items |-> ItemsOf(k[2], n[k[2]]), collected_at |-> 1]]
  /\ pc = [p \in Procs |-> IF p = Runner THEN "k_read" ELSE "done"]
  /\ result = [p \in Procs |->
                 IF p = Runner THEN [claimed |-> TRUE, digest_id |-> 1]
                 ELSE NoResult]
  /\ kp = [p \in Procs |->
             IF p = Runner
             THEN [NoKp EXCEPT !.digest_id = 1, !.started = TRUE]
             ELSE NoKp]
  /\ tp = [p \in Procs |-> NoTp]
  /\ ap = [c \in Ctx |-> NoAp]
  /\ obs = [analyze |-> << <<>> >>, selected |-> << {} >>, emptyMerge |-> {}]
  /\ TopicIdle

NextRunner ==
  \/ CollectRead(Runner)
  \/ CollectGather(Runner)
  \/ CollectUpdate(Runner)

SpecRunner == InitRunner /\ [][NextRunner]_vars

\* one Run from its collection to its end, with every collector registered:
\* the execution of SpecRunner followed by its hand-off and analysis phase
NextRun ==
  \/ NextRunner
  \/ TriggerAnalysisPhase(Runner)
  \/ TriggerInlineEnd(Runner)
  \/ \E c \in Ctx : run_analysis_phase(c)

SpecRun == InitRunner /\ [][NextRun]_vars

\* ------------------------------------------- the internal trigger routes
\* (routes/ai_daily_report.py) POST /internal/analyze and /internal/collect.
\* A request is its x-internal-secret header, <<>> when it has none, and its
\* JSON body, <<>> when it has no digest_id and <<NoId>> when the value is
\* empty
InternalRoutes == {"internal_analyze", "internal_collect"}

\* request.headers.get("x-internal-secret", "")
HeaderGet(headers) == IF headers = <<>> THEN "" ELSE headers[1]
\* body.get("digest_id")
BodyGet(body) == IF body = <<>> THEN NoId ELSE body[1]

\* a route that does not look at the header
StatusWithoutSecret(secret, configured, digest_id) ==
  IF digest_id = NoId THEN "400" ELSE "200"

\* the two checks of the routes, in their order (lines 246-252, 269-275)
InternalStatus(secret, configured, digest_id) ==
  IF secret # configured THEN "403"
  ELSE IF digest_id = NoId THEN "400"
  ELSE "200"

\* the invocation that serves a request to the route, in which the task the
\* handler adds runs once the answer is sent: the next entry-point invocation
\* for /internal/collect, the next free context beside them for
\* /internal/analyze
Serving(fn) ==
  IF fn = "internal_collect" THEN { p \in Procs : Starts(p) }
  ELSE { c \in Ctx \ Procs :
           /\ ap[c].pc = "idle"
           /\ \A d \in Ctx \ Procs : d < c => ap[d].pc # "idle" }

\* a request arrives at one of the two routes and is given its invocation
InternalRequest(fn, headers, body) ==
  /\ IF call.fn = "none" THEN TRUE ELSE call.status # "pending"
  /\ \E c \in Serving(fn) :
       call' = [fn |-> fn, headers |-> headers, body |-> body,
                status |-> "pending", ctx |-> c]
  /\ UNCHANGED <<digestVars, other, utcnow, fetch_cache, analysis_cache, tool, req>>

\* POST /internal/analyze: the checks, then
\* background_tasks.add_task(run_analysis_phase, digest_id)
internal_analyze ==
  LET digest_id == BodyGet(call.body)
      answer == InternalStatus(HeaderGet(call.headers),
                               settings.internal_secret, digest_id)
  IN /\ call.fn = "internal_analyze"
     /\ call.status = "pending"
     /\ call' = [call EXCEPT !.status = answer]
     /\ IF answer = "200"
        THEN ap' = [ap EXCEPT ![call.ctx] = StartAnalysis(digest_id)]
        ELSE ap' = ap
     /\ UNCHANGED <<COLLECTOR_REGISTRY, clock, ticks, settings, digests,
                    nextId, cache, pc, result, kp, tp, obs, utcnow,
                    fetch_cache, analysis_cache, tool, other, req>>

\* POST /internal/collect: the checks, then
\* background_tasks.add_task(run_collectors_phase, digest_id)
internal_collect ==
  LET digest_id == BodyGet(call.body)
      answer == InternalStatus(HeaderGet(call.headers),
                               settings.internal_secret, digest_id)
  IN /\ call.fn = "internal_collect"
     /\ call.status = "pending"
     /\ call' = [call EXCEPT !.status = answer]
     /\ IF answer = "200"
        THEN EnterCollectors(call.ctx, digest_id, "done")
        ELSE /\ pc' = pc
             /\ kp' = kp
     /\ UNCHANGED <<COLLECTOR_REGISTRY, clock, ticks, settings, digests,
                    nextId, cache, result, tp, ap, obs, utcnow,
                    fetch_cache, analysis_cache, tool, other, req>>

\* the service with one Run in status collecting, no app URL (the analysis
\* phase follows the collectors inline) and requests of any kind arriving
\* at the two routes, one after the other, while the tasks of the requests
\* accepted before are running
InitInternal ==
  /\ COLLECTOR_REGISTRY = Registered(NumCollectors)
  /\ clock = 1
  /\ ticks = 0
  /\ settings \in [effective_app_url : {""}, internal_secret : {"", "key"}]
  /\ digests = (1 :> [digest_date |-> 1, status |-> "collecting",
                      created_at |-> 1, source_health |-> NoHealth,
                      total_items |-> 0, has_result |-> FALSE])
  /\ nextId = 2
  /\ cache = <<>>
  /\ pc = [p \in Procs |-> "idle"]
  /\ result = [p \in Procs |-> NoResult]
  /\ kp = [p \in Procs |-> NoKp]
  /\ tp = [p \in Procs |-> NoTp]
  /\ ap = [c \in Ctx |-> NoAp]
  /\ obs = [analyze |-> << <<>> >>, selected |-> << {} >>, emptyMerge |-> {}]
  /\ TopicIdle

NextInternal ==
  \/ \E fn \in InternalRoutes,
        headers \in {<<>>, <<"">>, <<"key">>, <<"wrong">>},
        body \in {<<>>, <<NoId>>, <<1>>} :
       InternalRequest(fn, headers, body)
  \/ internal_analyze
  \/ internal_collect
  \/ \E p \in Procs : CollectRead(p)
  \/ \E p \in Procs : CollectGather(p)
  \/ \E p \in Procs : CollectUpdate(p)
  \/ \E p \in Procs : TriggerAnalysisPhase(p)
  \/ \E p \in Procs : TriggerInlineEnd(p)
  \/ \E c \in Ctx : run_analysis_phase(c)

SpecInternal == InitInternal /\ [][NextInternal]_vars

\* ======================================================= the tiered cache
\* (services/cache.py) a query is the sequence of its characters
MaxLen == 4          \* characters of a query given to normalize_query
MaxAsk == 1          \* characters of a query given to the cache functions
MaxRows == 2         \* rows the two cache tables hold at most, together
MaxNow == 24         \* the last instant observed, in hours

\* the instants datetime.now() is observed at are Pace hours apart: Pace is
\* the shortest lifetime and divides all the others
Pace == 12

Letters == {"a", "A"}
Blanks == {" ", "\t", "\n"}
QueriesUpTo(n) == UNION { [1 .. k -> Letters \cup Blanks] : k \in 0 .. n }
Asked == QueriesUpTo(MaxAsk)

TimeRanges == {"day", "week", "month", "year"}
Sources == {"reddit", "youtube", "amazon"}
\* a payload is a list of items; the items of the n-th batch an invocation
\* obtains are <<n, 1>>, <<n, 2>>, ... (batch 0 was in the cache before it)
Items(batch, n) == [i \in 1 .. n |-> <<batch, i>>]
Payloads == {Items(0, 1), Items(0, 2)}
\* Python's None: a value that is no list of items
None == <<<<0, 0>>>>

\* lifetimes in hours: timedelta(hours=12), (hours=24), (days=3), (days=7)
FETCH_TTL == [day |-> 12, week |-> 24, month |-> 72, year |-> 168]
ANALYSIS_TTL == [day |-> 12, week |-> 24, month |-> 72, year |-> 168]
\* the time ranges whose rows can be seen to expire by MaxNow
Expiring == { r \in TimeRanges : FETCH_TTL[r] <= MaxNow }
\* table.get(time_range, table["week"])
TtlOf(table, time_range) ==
  IF time_range \in DOMAIN table THEN table[time_range] ELSE table["week"]

\* str.lower(), character by character
LowerAll(s) == [i \in 1 .. Len(s) |-> IF s[i] = "A" THEN "a" ELSE s[i]]
\* str.strip(): leading and trailing whitespace removed
RECURSIVE LStrip(_)
LStrip(s) ==
  IF s # <<>> /\ Head(s) \in Blanks THEN LStrip(Tail(s)) ELSE s
RECURSIVE RStrip(_)
RStrip(s) ==
  IF s # <<>> /\ s[Len(s)] \in Blanks
  THEN RStrip(SubSeq(s, 1, Len(s) - 1)) ELSE s
Strip(s) == RStrip(LStrip(s))
\* _MULTI_SPACE.sub(" ", s): every maximal run of whitespace becomes one space
RECURSIVE MultiSpaceSub(_)
MultiSpaceSub(s) ==
  IF s = <<>> THEN <<>>
  ELSE IF Head(s) \in Blanks
       THEN <<" ">> \o MultiSpaceSub(LStrip(Tail(s)))
       ELSE <<Head(s)>> \o MultiSpaceSub(Tail(s))

NormalizeKeepsRuns(query) == LowerAll(Strip(query))

normalize_query(query) == MultiSpaceSub(LowerAll(Strip(query)))

\* .gt("expires_at", now): the rows the read query keeps
UnexpiredInclusive(row, t) == row.expires_at >= t

Unexpired(row, t) == row.expires_at > t

\* what a call can meet: nothing, get_supabase_client() raising, or an
\* exception raised by the query builder or by execute()
Faults == {"none", "client", "store"}

\* a row of a cache table: its key columns (query_normalized, time_range
\* and, in fetch_cache, source), its data or report column, and expires_at
Row(key, payload, expires_at) ==
  [key |-> key, payload |-> payload, expires_at |-> expires_at]
Keys(table) == { r.key : r \in table }
RowOf(table, key) == CHOOSE r \in table : r.key = key

\* .select(...).eq(...).gt("expires_at", now).maybe_single().execute():
\* maybe_single answers no row with None and raises on more than one row,
\* which the getter's except turns into None
SelectRow(table, key, t) ==
  LET rows == { r \in table : r.key = key /\ Unexpired(r, t) }
  IN IF Cardinality(rows) = 1 THEN RowOf(rows, key).payload ELSE None

\* the key columns named in on_conflict, by their position in the key
FETCH_CONFLICT == {1, 2, 3}      \* "query_normalized,time_range,source"
ANALYSIS_CONFLICT == {1, 2}      \* "query_normalized,time_range"

\* an upsert whose conflict target leaves out the last key column
UpsertOnFewerColumns(table, on_conflict, key, payload, expires_at) ==
  { r \in table : \E c \in on_conflict \ {Len(key)} : r.key[c] # key[c] }
    \cup {Row(key, payload, expires_at)}

\* .upsert({...}, on_conflict=<key columns>).execute(): the row is inserted,
\* or takes the place of the row that has its values in the columns of
\* on_conflict
UpsertRow(table, on_conflict, key, payload, expires_at) ==
  { r \in table : \E c \in on_conflict : r.key[c] # key[c] }
    \cup {Row(key, payload, expires_at)}

Called(fn, key, fault, arg, out) ==
  [fn |-> fn, key |-> key, fault |-> fault, arg |-> arg, out |-> out,
   raised |-> fault = "client"]

get_cached_fetch(query, time_range, source, fault) ==
  LET norm == normalize_query(query)
      key == <<norm, time_range, source>>
  IN /\ call' = Called("get_cached_fetch", key, fault, None,
                       IF fault = "none"
                       THEN SelectRow(fetch_cache, key, utcnow) ELSE None)
     /\ UNCHANGED <<digestVars, other, utcnow, fetch_cache, analysis_cache, tool, req>>

set_cached_fetch(query, time_range, source, data, fault) ==
  LET norm == normalize_query(query)
      key == <<norm, time_range, source>>
      expires_at == utcnow + TtlOf(FETCH_TTL, time_range)
  IN /\ fetch_cache' = IF fault = "none"
                       THEN UpsertRow(fetch_cache, FETCH_CONFLICT, key, data,
                                      expires_at)
                       ELSE fetch_cache
     /\ call' = Called("set_cached_fetch", key, fault, data, None)
     /\ UNCHANGED <<digestVars, other, utcnow, analysis_cache, tool, req>>

get_cached_analysis(query, time_range, fault) ==
  LET norm == normalize_query(query)
      key == <<norm, time_range>>
  IN /\ call' = Called("get_cached_analysis", key, fault, None,
                       IF fault = "none"
                       THEN SelectRow(analysis_cache, key, utcnow) ELSE None)
     /\ UNCHANGED <<digestVars, other, utcnow, fetch_cache, analysis_cache, tool, req>>

set_cached_analysis(query, time_range, report, fault) ==
  LET norm == normalize_query(query)
      key == <<norm, time_range>>
      expires_at == utcnow + TtlOf(ANALYSIS_TTL, time_range)
  IN /\ analysis_cache' =
          IF fault = "none"
          THEN UpsertRow(analysis_cache, ANALYSIS_CONFLICT, key, report,
                         expires_at)
          ELSE analysis_cache
     /\ call' = Called("set_cached_analysis", key, fault, report, None)
     /\ UNCHANGED <<digestVars, other, utcnow, fetch_cache, tool, req>>

\* time passes between two calls
Advance ==
  /\ utcnow + Pace <= MaxNow
  /\ utcnow' = utcnow + Pace
  /\ UNCHANGED <<digestVars, other, fetch_cache, analysis_cache, call, tool, req>>

InitCache ==
  /\ Init
  /\ settings.effective_app_url = "url"

\* the queries and the sources the cache functions are called with: two
\* spellings with different keys, two of the sources
CacheAsked == {<<"A">>, <<" ">>}
CacheSources == {"reddit", "youtube"}
\* the calls tried are those after which the tables hold MaxRows rows at most
HasRoom(table, key) ==
  \/ key \in Keys(table)
  \/ Cardinality(fetch_cache) + Cardinality(analysis_cache) < MaxRows

NextCache ==
  \/ \E query \in CacheAsked, time_range \in Expiring, source \in CacheSources,
        fault \in Faults :
       get_cached_fetch(query, time_range, source, fault)
  \/ \E query \in CacheAsked, time_range \in Expiring, source \in CacheSources,
        data \in Payloads, fault \in Faults :
       /\ HasRoom(fetch_cache, <<normalize_query(query), time_range, source>>)
       /\ set_cached_fetch(query, time_range, source, data, fault)
  \/ \E query \in CacheAsked, time_range \in Expiring, fault \in Faults :
       get_cached_analysis(query, time_range, fault)
  \/ \E query \in CacheAsked, time_range \in Expiring, report \in Payloads,
        fault \in Faults :
       /\ HasRoom(analysis_cache, <<normalize_query(query), time_range>>)
       /\ set_cached_analysis(query, time_range, report, fault)
  \/ Advance

SpecCache == InitCache /\ [][NextCache]_vars

\* ------------------------------------------------- normalize_query alone
\* a query as typed, then normalize_query applied to it and to its own result
InitNormalize ==
  /\ InitDigest
  /\ settings.effective_app_url = "url"
  /\ utcnow = 0
  /\ fetch_cache = {}
  /\ analysis_cache = {}
  /\ \E query \in QueriesUpTo(MaxLen) :
       call = [fn |-> "typed", arg |-> query, out |-> query]
  /\ tool = NoTool
  /\ other = NoTool
  /\ req = NoReqs

Normalize ==
  /\ call' = [fn |-> "normalize_query", arg |-> call.out,
              out |-> normalize_query(call.out)]
  /\ UNCHANGED <<digestVars, other, utcnow, fetch_cache, analysis_cache, tool, req>>

SpecNormalize == InitNormalize /\ [][Normalize]_vars

\* ==================================================== the relevance filter
\* (services/tools.py) a batch is the list of the items a fetcher returned
MaxBatch == 4        \* items given to relevance_filter when it runs alone


\* the float k / n, as the fraction in lowest terms
RECURSIVE GCD(_, _)
GCD(a, b) == IF b = 0 THEN a ELSE GCD(b, a % b)
Ratio(k, n) == [num |-> k \div GCD(k, n), den |-> n \div GCD(k, n)]
One == Ratio(1, 1)
HalfOrBelow(r) == 2 * r.num <= r.den

\* yield_ratio < 0.5
BelowHalf(r) == 2 * r.num < r.den

\* what the classification call can do: raise, answer text json.loads
\* rejects, or answer a JSON array of booleans of some length
Responses(n) ==
  {[kind |-> "raise", verdicts |-> <<>>],
   [kind |-> "unparsable", verdicts |-> <<>>]}
  \cup { [kind |-> "vector", verdicts |-> v] :
           v \in UNION { [1 .. k -> BOOLEAN] : k \in 0 .. (n + 1) } }

\* the accepted items, last first
RECURSIVE KeepNewestFirst(_, _)
KeepNewestFirst(items, verdicts) ==
  IF items = <<>> THEN <<>>
  ELSE KeepNewestFirst(Tail(items), Tail(verdicts))
       \o (IF Head(verdicts) THEN <<Head(items)>> ELSE <<>>)

\* [item for item, is_rel in zip(items, verdicts) if is_rel]
RECURSIVE Keep(_, _)
Keep(items, verdicts) ==
  IF items = <<>> THEN <<>>
  ELSE (IF Head(verdicts) THEN <<Head(items)>> ELSE <<>>)
       \o Keep(Tail(items), Tail(verdicts))

Filtered(relevant, yield_ratio, classified) ==
  [relevant |-> relevant, yield_ratio |-> yield_ratio,
   classified |-> classified, raised |-> FALSE]

FilterFailsClosed(items, response) ==
  IF items = <<>> THEN Filtered(<<>>, One, FALSE)
  ELSE IF response.kind = "vector" /\ Len(response.verdicts) = Len(items)
       THEN Filtered(Keep(items, response.verdicts),
                     Ratio(Len(Keep(items, response.verdicts)), Len(items)),
                     TRUE)
       ELSE Filtered(<<>>, Ratio(0, 1), TRUE)

relevance_filter(items, response) ==
  IF items = <<>> THEN Filtered(<<>>, One, FALSE)
  ELSE IF response.kind # "vector" THEN Filtered(items, One, TRUE)
  ELSE IF Len(response.verdicts) # Len(items) THEN Filtered(items, One, TRUE)
  ELSE LET relevant == Keep(items, response.verdicts)
       IN Filtered(relevant, Ratio(Len(relevant), Len(items)), TRUE)

\* relevance_filter alone, on a batch of up to MaxBatch items
InitFilter ==
  /\ InitDigest
  /\ settings.effective_app_url = "url"
  /\ utcnow = 0
  /\ fetch_cache = {}
  /\ analysis_cache = {}
  /\ call = NoCall
  /\ \E n \in 0 .. MaxBatch : tool = [pc |-> "filter", items |-> [i \in 1 .. n |-> i]]
  /\ other = NoTool
  /\ req = NoReqs

RelevanceFilter ==
  /\ tool.pc = "filter"
  /\ \E response \in IF tool.items = <<>> THEN {[kind |-> "none", verdicts |-> <<>>]}
                     ELSE Responses(Len(tool.items)) :
       tool' = [pc |-> "filtered", items |-> tool.items,
                response |-> response,
                out |-> relevance_filter(tool.items, response)]
  /\ UNCHANGED <<digestVars, other, utcnow, fetch_cache, analysis_cache, call, req>>

SpecFilter == InitFilter /\ [][RelevanceFilter]_vars

\* ========================================================= the fetch tools
\* fetch_reddit_tool, fetch_youtube_tool, fetch_amazon_tool: one invocation
FETCH_LIMITS ==
  [day   |-> [reddit |-> 8,  youtube |-> 8,  amazon |-> 2],
   week  |-> [reddit |-> 15, youtube |-> 15, amazon |-> 3],
   month |-> [reddit |-> 25, youtube |-> 25, amazon |-> 5],
   year  |-> [reddit |-> 35, youtube |-> 30, amazon |-> 6]]
LimitsDefaultDay(time_range) ==
  IF time_range \in DOMAIN FETCH_LIMITS THEN FETCH_LIMITS[time_range]
  ELSE FETCH_LIMITS["day"]

get_fetch_limits(time_range) ==
  IF time_range \in DOMAIN FETCH_LIMITS THEN FETCH_LIMITS[time_range]
  ELSE FETCH_LIMITS["week"]

\* the batch sizes tried for a fetch limited to limit items
Sizes(limit) == {0, 1, limit - 1, limit}
\* what the call of the fetcher can do, as the tool makes it: fetch_reddit
\* returns up to limit items and returns [] on any error; fetch_amazon
\* returns at least one item or raises RuntimeError; fetch_youtube is called
\* with published_after=... (lines 307, 318), a keyword its signature does not
\* have (crawler.py, lines 134-138), so the call raises TypeError
FetchOutcomes(source, limit) ==
  IF source = "amazon"
  THEN {[kind |-> "RuntimeError", n |-> 0]}
       \cup { [kind |-> "items", n |-> n] : n \in Sizes(limit) \ {0} }
  ELSE IF source = "youtube"
  THEN {[kind |-> "TypeError", n |-> 0]}
  ELSE { [kind |-> "items", n |-> n] : n \in Sizes(limit) }

\* the answers of the classifier tried on a batch of n items: a failure, and
\* vectors with k relevant items for k none, just below half, half, all
ToolResponses(n) ==
  {[kind |-> "raise", verdicts |-> <<>>]}
  \cup { [kind |-> "vector", verdicts |-> [i \in 1 .. n |-> i <= k]] :
           k \in {0, (n - 1) \div 2, (n + 1) \div 2, n} }

\* get_cached_fetch and set_cached_fetch as the tool calls them
CachedFetch(query, time_range, source, fault) ==
  IF fault = "none"
  THEN SelectRow(fetch_cache, <<normalize_query(query), time_range, source>>,
                 utcnow)
  ELSE None
StoredFetch(table, query, time_range, source, data, fault) ==
  IF fault = "none"
  THEN UpsertRow(table, FETCH_CONFLICT,
                 <<normalize_query(query), time_range, source>>, data,
                 utcnow + TtlOf(FETCH_TTL, time_range))
  ELSE table

\* the batches an invocation fetches are numbered batch0 + 1, batch0 + 2
ToolStart(source, query, time_range) ==
  [pc |-> "t_start", source |-> source, query |-> query,
   time_range |-> time_range, batch0 |-> 0,
   initial_limit |-> get_fetch_limits(time_range)[source],
   cached |-> None, posts |-> <<>>, relevant |-> <<>>, yield_ratio |-> One,
   first |-> One, fetches |-> <<>>, filters |-> <<>>, ret |-> "none"]

\* a test that every batch passes
AnyBatch(posts) == TRUE

\* `if posts:` (lines 249, 261): the batch has items
Truthy(posts) == posts # <<>>

\* the invocation ends: by a return, or by an exception leaving the tool
ToolReturn(t, ret) == [t EXCEPT !.pc = "t_done", !.ret = ret]
ToolRaise(t) == [t EXCEPT !.pc = "t_raised"]

\* The steps of an invocation, from its locals t to its locals u.  A step
\* ends where the invocation waits: for the fetch cache, for the fetcher or
\* for the classifier; whatever else runs may act in between.
\* the cache check (lines 244-246, 303-305, 356-358)
ToolReadOf(t, u) ==
  /\ t.pc = "t_start"
  /\ \E gfault \in Faults :
       LET cached == CachedFetch(t.query, t.time_range, t.source, gfault)
       IN u = IF gfault = "client" THEN ToolRaise(t)
              ELSE IF cached # None
              THEN [t EXCEPT !.pc = "t_fetched", !.cached = cached,
                             !.posts = cached]
              ELSE [t EXCEPT !.pc = "t_miss"]
  /\ UNCHANGED fetch_cache

\* after a miss: the first fetch returns and the batch is written to the
\* cache (lines 248-253, 307-312, 360-369)
ToolFetchOf(t, u) ==
  /\ t.pc = "t_miss"
  /\ \E outcome \in FetchOutcomes(t.source, t.initial_limit) :
       LET posts == Items(t.batch0 + 1, outcome.n)
           v == [t EXCEPT !.posts = posts,
                   !.fetches = Append(@, t.initial_limit)]
       IN IF outcome.kind = "TypeError"
          THEN u = ToolRaise(t) /\ UNCHANGED fetch_cache
          ELSE IF outcome.kind = "RuntimeError"
          THEN u = ToolReturn(v, "error") /\ UNCHANGED fetch_cache
          ELSE IF ~Truthy(posts)
          THEN u = ToolReturn(v, "no results") /\ UNCHANGED fetch_cache
          ELSE \E sfault \in Faults :
                 /\ fetch_cache' =
                      StoredFetch(fetch_cache, t.query, t.time_range,
                                  t.source, posts, sfault)
                 /\ u = IF sfault = "client" THEN ToolRaise(v)
                        ELSE [v EXCEPT !.pc = "t_fetched"]

\* the relevance filter on the first batch (lines 255, 314, 374)
ToolFilterOf(t, u) ==
  /\ t.pc = "t_fetched"
  /\ \E response \in ToolResponses(Len(t.posts)) :
       LET out == relevance_filter(t.posts, response)
       IN u = [t EXCEPT !.pc = "t_filtered",
                 !.relevant = out.relevant,
                 !.yield_ratio = out.yield_ratio,
                 !.first = out.yield_ratio,
                 !.filters = Append(@, t.posts)]
  /\ UNCHANGED fetch_cache

ToolResultLoops(t, meaningful) == [t EXCEPT !.pc = "t_filtered"]

\* the end of a tool (lines 265-286, 323-340, 383-392): nothing relevant;
\* in fetch_reddit_tool alone, relevant posts that all have neither body text
\* nor comments left (meaningful = FALSE: every post is skipped at lines
\* 274-275 and no section remains); the formatted results
ToolResult(t, meaningful) ==
  ToolReturn(t, IF t.relevant = <<>> THEN "no relevant"
                ELSE IF t.source = "reddit" /\ ~meaningful
                THEN "no meaningful"
                ELSE "results")

\* after the first filter (lines 257-259, 316-317, 373-376): with a low
\* yield on a full fresh batch the fetcher is called again, at twice the
\* limit, and the invocation waits for it; otherwise the invocation ends
ToolEscalateOf(t, u) ==
  /\ t.pc = "t_filtered"
  /\ IF /\ BelowHalf(t.yield_ratio)
        /\ Len(t.posts) >= t.initial_limit
        /\ t.cached = None
     THEN u = [t EXCEPT !.pc = "t_refetch"]
     ELSE \E meaningful \in BOOLEAN : u = ToolResult(t, meaningful)
  /\ UNCHANGED fetch_cache

\* the second fetch returns (lines 260-262, 318-320, 376-378, 380-381): a
\* batch with items is written to the cache and given to the classifier, for
\* which the invocation waits; with no items, or after fetch_amazon's
\* RuntimeError, the invocation ends on what the first filter left
ToolRefetchOf(t, u) ==
  /\ t.pc = "t_refetch"
  /\ \E outcome \in FetchOutcomes(t.source, t.initial_limit * 2) :
       LET posts == Items(t.batch0 + 2, outcome.n)
           v == [t EXCEPT !.fetches = Append(@, t.initial_limit * 2)]
       IN IF outcome.kind = "TypeError"
          THEN u = ToolRaise(t) /\ UNCHANGED fetch_cache
          ELSE IF outcome.kind = "RuntimeError"
          THEN /\ \E meaningful \in BOOLEAN : u = ToolResult(v, meaningful)
               /\ UNCHANGED fetch_cache
          ELSE IF ~Truthy(posts)
          THEN /\ \E meaningful \in BOOLEAN :
                    u = ToolResult([v EXCEPT !.posts = posts], meaningful)
               /\ UNCHANGED fetch_cache
          ELSE \E sfault \in Faults :
                 /\ fetch_cache' =
                      StoredFetch(fetch_cache, t.query, t.time_range,
                                  t.source, posts, sfault)
                 /\ u = IF sfault = "client"
                        THEN ToolRaise([v EXCEPT !.posts = posts])
                        ELSE [v EXCEPT !.pc = "t_refilter", !.posts = posts]

\* the relevance filter on the second batch returns (lines 263, 321, 379)
\* and the invocation ends
ToolRefilterOf(t, u) ==
  /\ t.pc = "t_refilter"
  /\ \E response \in ToolResponses(Len(t.posts)), meaningful \in BOOLEAN :
       LET out == relevance_filter(t.posts, response)
       IN u = ToolResult([t EXCEPT !.relevant = out.relevant,
                                   !.yield_ratio = out.yield_ratio,
                                   !.filters = Append(@, t.posts)],
                         meaningful)
  /\ UNCHANGED fetch_cache

\* the steps of the invocation tool
ToolRead ==
  /\ ToolReadOf(tool, tool')
  /\ UNCHANGED <<digestVars, utcnow, analysis_cache, call, other, req>>

ToolFetch ==
  /\ ToolFetchOf(tool, tool')
  /\ UNCHANGED <<digestVars, utcnow, analysis_cache, call, other, req>>

ToolFilter ==
  /\ ToolFilterOf(tool, tool')
  /\ UNCHANGED <<digestVars, utcnow, analysis_cache, call, other, req>>

ToolEscalate ==
  /\ ToolEscalateOf(tool, tool')
  /\ UNCHANGED <<digestVars, utcnow, analysis_cache, call, other, req>>

ToolRefetch ==
  /\ ToolRefetchOf(tool, tool')
  /\ UNCHANGED <<digestVars, utcnow, analysis_cache, call, other, req>>

ToolRefilter ==
  /\ ToolRefilterOf(tool, tool')
  /\ UNCHANGED <<digestVars, utcnow, analysis_cache, call, other, req>>

\* the cache before an invocation for the key of query, time_range, source:
\* empty, or a row for the key, a live one or one expired just now
HeldRows(query, time_range, source) ==
  {{}}
  \cup { {Row(<<normalize_query(query), time_range, source>>,
               Items(0, get_fetch_limits(time_range)[source]), e)} :
           e \in {TtlOf(FETCH_TTL, time_range), 0} }

\* one invocation of one tool, for a query and a time range:
\* ctx.deps.time_range is one of the four ranges or any other string
InitTool ==
  /\ InitDigest
  /\ settings.effective_app_url = "url"
  /\ utcnow = 0
  /\ analysis_cache = {}
  /\ call = NoCall
  /\ other = NoTool
  /\ req = NoReqs
  /\ \E source \in Sources, query \in Asked, time_range \in TimeRanges \cup {"decade"} :
       /\ tool = ToolStart(source, query, time_range)
       /\ fetch_cache \in HeldRows(query, time_range, source)

NextTool ==
  \/ ToolRead
  \/ ToolFetch
  \/ ToolFilter
  \/ ToolEscalate
  \/ ToolRefetch
  \/ ToolRefilter

SpecTool == InitTool /\ [][NextTool]_vars

\* an invocation that has started is run to its end: each step of the tool
\* is a call that returns or raises
SpecToolLive == InitTool /\ [][NextTool]_vars /\ WF_vars(NextTool)

\* ----------------------------------------- two invocations at the same time
\* a step of the invocation other
OtherStep ==
  /\ \/ ToolReadOf(other, other')
     \/ ToolFetchOf(other, other')
     \/ ToolFilterOf(other, other')
     \/ ToolEscalateOf(other, other')
     \/ ToolRefetchOf(other, other')
     \/ ToolRefilterOf(other, other')
  /\ UNCHANGED <<digestVars, utcnow, analysis_cache, call, tool, req>>

\* two invocations of the same tool for the same key (the queries "A" and "a"
\* differ in letter case only, the time range is day), started on the same
\* cache; their steps interleave in any order
InitToolPair ==
  /\ InitDigest
  /\ settings.effective_app_url = "url"
  /\ utcnow = 0
  /\ analysis_cache = {}
  /\ call = NoCall
  /\ \E source \in Sources :
       /\ tool = ToolStart(source, <<"A">>, "day")
       /\ other = [ToolStart(source, <<"a">>, "day") EXCEPT !.batch0 = 2]
       /\ req = NoReqs
       /\ fetch_cache \in HeldRows(<<"A">>, "day", source)

NextToolPair ==
  \/ NextTool
  \/ OtherStep

SpecToolPair == InitToolPair /\ [][NextToolPair]_vars

\* ========================================================= analyze_topic
\* (services/agent.py) the requests go through analyze_topic at the same
\* time: each waits while its agent runs, and the fetch tools the agents
\* call read and write the fetch cache meanwhile, step by step; time passes
\* between the steps
\* who sends request i, through which channel, and for what: two spellings
\* of one topic, which differ and normalize to the same key, for the time
\* range whose rows expire soonest
Askers ==
  <<[query |-> <<"a">>, user_id |-> "u1", source |-> "web",
     time_range |-> "day"],
    [query |-> <<"A">>, user_id |-> "u2", source |-> "telegram",
     time_range |-> "day"]>>
\* fetch tool calls the agent runs of a behaviour make at most, all runs
\* together
MaxToolCalls == 1

\* a TrendReport as the record of its fields: topic stands for the analysis
\* (topic ... charts_data), the metadata fields are kept one by one; "none"
\* is Python's None and <<>> the None of the query field
Required == {"topic"}
Defaults ==
  [id |-> "none", user_id |-> "none", query |-> <<>>, source |-> "none",
   created_at |-> "none"]
PerUser == {"id", "user_id", "created_at"}
NoReport == [topic |-> "none"]

\* TrendReport.model_validate(data): raises when a required field is missing,
\* fills the metadata fields the data lacks with their defaults
Validates(data) == Required \subseteq DOMAIN data
model_validate(data) ==
  [f \in Required \cup DOMAIN Defaults |->
     IF f \in DOMAIN data THEN data[f] ELSE Defaults[f]]

\* obj.field = value
SetField(report, field, value) ==
  [f \in DOMAIN report |-> IF f = field THEN value ELSE report[f]]

\* result.output: the agent's TrendReport; the model fills the analysis and
\* may fill the id field, the fields set below are overwritten
AgentOutputs ==
  {model_validate([topic |-> "x"]),
   model_validate([topic |-> "y", id |-> "made up"])}

\* a dump that keeps every field
DumpWhole(report) == report

\* report.model_dump(mode="json", exclude={"id", "user_id", "created_at"})
CacheData(report) == [f \in DOMAIN report \ PerUser |-> report[f]]

\* a row of an earlier schema, which does not validate any more
StaleRow == Row(<<<<"a">>, "day">>, [headline |-> "x"], Pace)

AnalysisKey(t) == <<normalize_query(t.query), t.time_range>>

\* analyze_topic(query, user_id, source, session_id, time_range,
\* force_refresh) is entered
AnalyzeTopic(i, query, user_id, source, time_range, force_refresh) ==
  /\ req[i].pc = "idle"
  /\ req' = [req EXCEPT ![i] =
              [pc |-> IF force_refresh THEN "a_agent" ELSE "a_read",
               query |-> query, user_id |-> user_id, source |-> source,
               time_range |-> time_range, force_refresh |-> force_refresh,
               fault |-> "none", read |-> FALSE, ran |-> FALSE,
               tools |-> 0, calling |-> FALSE, wrote |-> FALSE,
               cached |-> FALSE,
               report |-> NoReport]]
  /\ UNCHANGED <<digestVars, utcnow, fetch_cache, analysis_cache, call, tool,
                 other>>

\* a read that never finds a row
AnalyzeReadMisses(i, fault) ==
  /\ req[i].pc = "a_read"
  /\ req' = [req EXCEPT ![i].pc = IF fault = "client" THEN "a_raised"
                                   ELSE "a_agent",
                        ![i].fault = fault, ![i].read = TRUE]
  /\ UNCHANGED <<digestVars, utcnow, fetch_cache, analysis_cache, call, tool,
                 other>>

\* cached_report = get_cached_analysis(query, time_range) and, on a hit,
\* the validation and the return of the cached report
AnalyzeRead(i, fault) ==
  /\ req[i].pc = "a_read"
  /\ LET key == AnalysisKey(req[i])
         rows == { r \in analysis_cache :
                     r.key = key /\ Unexpired(r, utcnow) }
         hit == fault = "none" /\ Cardinality(rows) = 1
         data == RowOf(rows, key).payload
     IN req' =
          IF fault = "client"
          THEN [req EXCEPT ![i].pc = "a_raised", ![i].fault = fault,
                           ![i].read = TRUE]
          ELSE IF hit /\ Validates(data)
          THEN [req EXCEPT ![i].pc = "a_done", ![i].fault = fault,
                           ![i].read = TRUE, ![i].cached = TRUE,
                           ![i].report =
                             SetField(SetField(model_validate(data),
                                               "user_id", req[i].user_id),
                                      "source", req[i].source)]
          ELSE [req EXCEPT ![i].pc = "a_agent", ![i].fault = fault,
                           ![i].read = TRUE]
  /\ UNCHANGED <<digestVars, utcnow, fetch_cache, analysis_cache, call, tool,
                 other>>

\* the fetch tool invocation of the agent run of request i: tool for the
\* first request, other for the second
Slot(i) == IF i = 1 THEN tool ELSE other
SetSlot(i, t) ==
  IF i = 1 THEN tool' = t /\ other' = other
  ELSE other' = t /\ tool' = tool

\* while request i awaits agent.run (line 109), the agent calls one of its
\* fetch tools (lines 84-87: reddit, youtube, amazon) with the query it was
\* given and the time range of the request (ctx.deps.time_range); the calls
\* made so far, by every run, are counted against MaxToolCalls
AgentTool(i, source) ==
  /\ req[i].pc = "a_agent"
  /\ Cardinality({ c \in Reqs \X (1 .. MaxToolCalls) :
                     /\ req[c[1]].pc # "idle"
                     /\ c[2] <= req[c[1]].tools }) < MaxToolCalls
  /\ Slot(i).pc = "idle"
  /\ SetSlot(i, ToolStart(source, req[i].query, req[i].time_range))
  /\ req' = [req EXCEPT ![i].tools = @ + 1, ![i].calling = TRUE]
  /\ UNCHANGED <<digestVars, utcnow, fetch_cache, analysis_cache, call>>

\* result = await _run_agent(query, time_range) returns or raises, and
\* result.output is enriched: the run ends when no tool call of its is under
\* way, with the exception of a tool that raised, with an exception of its
\* own, or with an output
AnalyzeAgent(i) ==
  /\ req[i].pc = "a_agent"
  /\ req[i].calling => Slot(i).pc \in {"t_done", "t_raised"}
  /\ SetSlot(i, NoTool)
  /\ \/ req' = [req EXCEPT ![i].pc = "a_raised", ![i].ran = TRUE,
                            ![i].calling = FALSE]
     \/ /\ req[i].calling => Slot(i).pc # "t_raised"
        /\ \E output \in AgentOutputs :
             req' = [req EXCEPT
                       ![i].pc = "a_store", ![i].ran = TRUE,
                       ![i].calling = FALSE,
                       ![i].report =
                         SetField(SetField(SetField(output,
                                                    "query", req[i].query),
                                           "source", req[i].source),
                                  "user_id", req[i].user_id)]
  /\ UNCHANGED <<digestVars, utcnow, fetch_cache, analysis_cache, call>>

\* set_cached_analysis(query, time_range, cache_data); return report, False
AnalyzeStore(i, fault) ==
  /\ req[i].pc = "a_store"
  /\ analysis_cache' =
       IF fault = "none"
       THEN UpsertRow(analysis_cache, ANALYSIS_CONFLICT, AnalysisKey(req[i]),
                      CacheData(req[i].report),
                      utcnow + TtlOf(ANALYSIS_TTL, req[i].time_range))
       ELSE analysis_cache
  /\ req' = [req EXCEPT ![i].pc = IF fault = "client" THEN "a_raised"
                                   ELSE "a_done",
                        ![i].wrote = TRUE]
  /\ UNCHANGED <<digestVars, utcnow, fetch_cache, call, tool, other>>

InitAnalyze ==
  /\ InitDigest
  /\ settings.effective_app_url = "url"
  /\ utcnow = 0
  /\ fetch_cache = {}
  /\ call = NoCall
  /\ tool = NoTool
  /\ other = NoTool
  /\ req = NoReqs
  /\ \E held \in BOOLEAN :
       analysis_cache = IF held THEN {StaleRow} ELSE {}

NextAnalyze ==
  \/ \E i \in Reqs, force_refresh \in BOOLEAN :
       AnalyzeTopic(i, Askers[i].query, Askers[i].user_id, Askers[i].source,
                    Askers[i].time_range, force_refresh)
  \/ \E i \in Reqs, fault \in Faults : AnalyzeRead(i, fault)
  \/ \E i \in Reqs, source \in Sources : AgentTool(i, source)
  \/ NextTool
  \/ OtherStep
  \/ \E i \in Reqs : AnalyzeAgent(i)
  \/ \E i \in Reqs, fault \in Faults : AnalyzeStore(i, fault)
  \/ Advance

SpecAnalyze == InitAnalyze /\ [][NextAnalyze]_vars

\* ================================================================ claims
\* the invocations that have made their claim call
Callers == { p \in Procs : pc[p] # "idle" }

NonTerminal == {"collecting", "analyzing"}

\* C1: of the callers that have claimed the same date key, exactly one
\* received claimed = TRUE, and every other caller received claimed = FALSE
\* together with the winner's digest_id.
C1_ExactlyOneClaimed ==
  Callers # {} =>
    \E w \in Callers :
      /\ result[w].claimed
      /\ result[w].digest_id \in Live
      /\ \A q \in Callers \ {w} :
           /\ ~result[q].claimed
           /\ result[q].digest_id = result[w].digest_id

\* every invocation has claimed while the winner's Run is still collecting
C1_Witness ==
  /\ Callers = Procs
  /\ \E w \in Procs :
       /\ result[w].claimed
       /\ pc[w] = "k_read"
       /\ digests[result[w].digest_id].status = "collecting"
       /\ \E q \in Procs : q # w /\ ~result[q].claimed

\* C2: in every reachable state no date key has two Runs in a non-terminal
\* status, whatever claims, phase executions and retention sweeps happened.
C2_OneNonTerminalRunPerKey ==
  \A i \in Live : \A j \in Live :
    ( /\ digests[i].digest_date = digests[j].digest_date
      /\ digests[i].status \in NonTerminal
      /\ digests[j].status \in NonTerminal ) => i = j

\* a second claim for a key was refused while its Run was non-terminal, and
\* Runs of two keys are non-terminal at once
C2_Witness ==
  \E i \in Live : \E j \in Live :
    /\ i # j
    /\ digests[i].status \in NonTerminal
    /\ digests[j].status \in NonTerminal

\* C3: a caller whose claim returned claimed = FALSE never starts the
\* collection phase, so the collection phase of a Run has at most one caller.
C3_UnclaimedNeverCollects ==
  /\ \A p \in Procs : kp[p].started => result[p].claimed
  /\ \A p \in Procs : \A q \in Procs :
       ( /\ kp[p].started
         /\ kp[q].started
         /\ kp[p].digest_id = kp[q].digest_id ) => p = q

\* C4: every caller that received claimed = TRUE starts the collection phase
\* for the Run it claimed.
C4_ClaimedStartsCollection ==
  \A p \in Callers :
    result[p].claimed =>
      kp[p].started /\ kp[p].digest_id = result[p].digest_id

\* the position of a status on collecting -> analyzing -> {completed, failed}
Rank(st) ==
  CASE st = "collecting" -> 0
    [] st = "analyzing" -> 1
    [] OTHER -> 2

\* C5: no step moves the status of a Run backwards: never back to
\* collecting, never to analyzing from completed or failed.
C5_StatusMovesForward ==
  [][\A i \in Live \cap DOMAIN digests' :
       Rank(digests'[i].status) >= Rank(digests[i].status)]_vars

\* C6: a Run whose collection phase ended with an empty merged item set is
\* never analyzing, has no analysis phase started for it, and analyze_digest
\* is never invoked for it.
C6_EmptyMergeFailsDirectly ==
  \A i \in obs.emptyMerge :
    /\ obs.analyze[i] = <<>>
    /\ \A c \in Ctx : ap[c].digest_id # i
    /\ i \in Live => digests[i].status \in {"collecting", "failed"}

\* the items of a merged list that carry source c, in their order
FromSource(items, c) == SelectSeq(items, LAMBDA x : x[1] = c)

\* _run_collectors has returned in invocation p and its result is at hand
Returned(p) == pc[p] = "k_update" /\ kp[p].returned

\* C7: whatever subset of the scheduled collectors raises, the merged result
\* holds exactly the items of the cached and of the succeeding collectors; a
\* failing collector contributes nothing and its health is "failed: <reason>";
\* the health of a freshly succeeding collector is "ok".
C7_FailureIsolation ==
  \A p \in Procs :
    Returned(p) =>
      LET k == kp[p]
      IN /\ \A i \in 1 .. Len(k.all_items) :
              k.all_items[i][1] \in COLLECTOR_REGISTRY
         /\ \A c \in COLLECTOR_REGISTRY :
              IF c \in DOMAIN k.cached
              THEN FromSource(k.all_items, c) = k.cached[c]
              ELSE IF k.oc[c].exc # "none"
              THEN /\ FromSource(k.all_items, c) = <<>>
                   /\ k.source_health[c] = "failed: " \o k.oc[c].exc
              ELSE /\ FromSource(k.all_items, c) = ItemsOf(c, k.oc[c].n)
                   /\ k.source_health[c] = "ok"

\* one collector raised, another returned items, a third was cached
C7_Witness ==
  \E p \in Procs :
    /\ Returned(p)
    /\ \E a \in kp[p].to_run : kp[p].oc[a].exc # "none"
    /\ \E b \in kp[p].to_run :
         kp[p].oc[b].exc = "none" /\ kp[p].oc[b].n > 0
    /\ \E c \in DOMAIN kp[p].cached : kp[p].cached[c] # <<>>

\* C8: in one execution of _run_collectors, collect() is not invoked for a
\* registered collector whose source has a cache row for the run key, whose
\* cached items are used with health "ok (cached)", and it is invoked exactly
\* once for every other registered collector.
C8_CachedNeverCollected ==
  \A p \in Procs :
    Returned(p) =>
      \A c \in COLLECTOR_REGISTRY :
        IF c \in DOMAIN kp[p].cached
        THEN /\ kp[p].calls[c] = 0
             /\ kp[p].source_health[c] = "ok (cached)"
             /\ FromSource(kp[p].all_items, c) = kp[p].cached[c]
        ELSE kp[p].calls[c] = 1

\* some sources were cached with items and some were not
C8_Witness ==
  \E p \in Procs :
    /\ Returned(p)
    /\ \E c \in DOMAIN kp[p].cached :
         kp[p].cached[c] # <<>> /\ kp[p].calls[c] = 0
    /\ \E d \in COLLECTOR_REGISTRY :
         d \notin DOMAIN kp[p].cached /\ kp[p].calls[d] = 1

\* C9: analyze_digest is invoked at most once for a Run, and exactly once
\* for a Run that is completed.
C9_AnalyzeOncePerRun ==
  \A i \in DOMAIN obs.analyze :
    /\ Len(obs.analyze[i]) <= 1
    /\ (i \in Live /\ digests[i].status = "completed") =>
         Len(obs.analyze[i]) = 1

\* C10: _trigger_analysis_phase runs run_analysis_phase inline when no app URL
\* is configured, and never runs it inline more than once in one execution.
C10_InlineExactlyOnce ==
  [][\A p \in Procs :
       /\ tp'[p].inline <= 1
       /\ ( /\ pc[p] = "k_trigger"
            /\ pc'[p] # "k_trigger"
            /\ settings.effective_app_url # "url" )
          => (tp'[p].inline = 1 /\ ap'[p].pc = "start")]_vars

Analysing == {"start"}

\* C12: when run_analysis_phase ends, in any context, it has not re-raised an
\* exception, and the Run it worked on is completed or, after any exception
\* before the completed write, failed.
C12_AnalysisFailureMarksFailed ==
  [][\A c \in Ctx :
       (ap[c].pc \in Analysing /\ ap'[c].pc \notin Analysing) =>
         /\ ap'[c].pc # "raise"
         /\ ap[c].digest_id \in DOMAIN digests' =>
              digests'[ap[c].digest_id].status \in {"completed", "failed"}]_vars

\* C13: no exception leaves run_collectors_phase or run_analysis_phase: no
\* invocation is ended by an exception of its collection phase, and no
\* caller of the analysis phase finds that it raised.
C13_NoExceptionEscapes ==
  /\ \A p \in Procs : pc[p] # "raised"
  /\ \A c \in Ctx : ap[c].pc # "raise"

\* the collection phase of Run i has been started by some invocation
CollectionStarted(i) ==
  \E p \in Procs : kp[p].started /\ kp[p].digest_id = i

\* C15: every Run whose collection phase has been started eventually is
\* completed or failed (or has been removed by the retention sweep).
C15_EveryRunEnds ==
  \A i \in Procs :
    CollectionStarted(i) ~>
      (i \in Live => digests[i].status \in {"completed", "failed"})

\* the calls that read a tier of the cache, and the table each function uses
Getters == {"get_cached_fetch", "get_cached_analysis"}
Setters == {"set_cached_fetch", "set_cached_analysis"}
TableOf(fn, fetch, analysis) ==
  IF fn \in {"get_cached_fetch", "set_cached_fetch"} THEN fetch ELSE analysis

\* C16: a cache read that the store answers returns the payload stored under
\* the composite key exactly when a row exists for the key and the instant
\* of the read is before the row's expires_at, and None otherwise: a read
\* that follows a write and comes before expires_at returns what was
\* written, a read at or after expires_at returns None.  A write the store
\* accepts leaves the written payload under the key, expiring one lifetime
\* after the write.
C16_ReadBeforeExpiry ==
  [][(call' # call /\ call'.fault = "none") =>
       LET k == call'.key
           before == TableOf(call'.fn, fetch_cache, analysis_cache)
           after == TableOf(call'.fn, fetch_cache', analysis_cache')
       IN /\ call'.fn \in Getters =>
               call'.out = IF /\ k \in Keys(before)
                              /\ utcnow < RowOf(before, k).expires_at
                           THEN RowOf(before, k).payload ELSE None
          /\ call'.fn \in Setters =>
               /\ k \in Keys(after)
               /\ RowOf(after, k).payload = call'.arg
               /\ RowOf(after, k).expires_at > utcnow]_vars

\* a read exactly at expires_at of the row stored under its key missed
C16_Witness ==
  /\ call.fn \in Getters
  /\ call.fault = "none"
  /\ call.out = None
  /\ LET t == TableOf(call.fn, fetch_cache, analysis_cache)
     IN call.key \in Keys(t) /\ RowOf(t, call.key).expires_at = utcnow

\* C17: no call of the tiered cache raises: a getter that meets an error of
\* the store returns None and a setter returns normally.
C17_CacheNeverRaises ==
  call.fn \in Getters \cup Setters => ~call.raised

\* the words of a query: its maximal runs of non-blank characters, letter
\* case set aside
WordEnd(s) ==
  IF \E i \in 1 .. Len(s) : s[i] \in Blanks
  THEN (CHOOSE i \in 1 .. Len(s) :
          s[i] \in Blanks /\ \A j \in 1 .. (i - 1) : s[j] \notin Blanks) - 1
  ELSE Len(s)
RECURSIVE Words(_)
Words(s) ==
  IF s = <<>> THEN <<>>
  ELSE IF Head(s) \in Blanks THEN Words(Tail(s))
       ELSE <<[i \in 1 .. WordEnd(s) |-> IF s[i] \in Letters THEN "a" ELSE s[i]]>>
            \o Words(SubSeq(s, WordEnd(s) + 1, Len(s)))

\* C18: normalize_query gives the same string for any two queries that
\* differ only in letter case, in leading or trailing whitespace, or in the
\* length or kind (space, tab, newline) of their internal whitespace runs,
\* and applying it to its own result changes nothing.
C18_NormalizeCanonical ==
  call.fn = "normalize_query" =>
    /\ \A q \in QueriesUpTo(MaxLen) :
         Words(q) = Words(call.arg) => normalize_query(q) = call.out
    /\ normalize_query(call.out) = call.out

\* a query with an upper-case letter, a leading blank and an internal run of
\* two blanks of different kinds was normalized to something else
C18_Witness ==
  /\ call.fn = "normalize_query"
  /\ call.out # call.arg
  /\ \E i \in 1 .. Len(call.arg) : call.arg[i] = "A"
  /\ \E i \in 2 .. (Len(call.arg) - 2) :
       /\ call.arg[i] \in Blanks /\ call.arg[i + 1] \in Blanks
       /\ call.arg[i] # call.arg[i + 1]
       /\ call.arg[i - 1] \in Letters /\ call.arg[i + 2] \in Letters

\* the classification call raised, answered text that cannot be parsed, or
\* answered a vector of another length than the batch
FailedOpen(items, response) ==
  \/ response.kind \in {"raise", "unparsable"}
  \/ response.kind = "vector" /\ Len(response.verdicts) # Len(items)

\* C19: when the classification call raises, answers output that cannot be
\* parsed or answers a vector whose length is not the number of items,
\* relevance_filter returns all its input items unchanged with yield_ratio
\* 1.0 and raises nothing.
C19_FilterFailsOpen ==
  (tool.pc = "filtered" /\ FailedOpen(tool.items, tool.response)) =>
    /\ tool.out.relevant = tool.items
    /\ tool.out.yield_ratio = One
    /\ ~tool.out.raised

\* a batch of several items came back whole after the classifier answered
\* a vector of the wrong length
C19_Witness ==
  /\ tool.pc = "filtered"
  /\ Len(tool.items) > 1
  /\ tool.response.kind = "vector"
  /\ tool.response.verdicts # <<>>
  /\ Len(tool.response.verdicts) # Len(tool.items)
  /\ tool.out.relevant = tool.items

\* the invocation has ended
ToolEnded == tool.pc \in {"t_done", "t_raised"}

\* C20: in the three fetch tools, when the first batch was freshly fetched,
\* has exactly the standard limit of items for the time range and a
\* yield_ratio below 0.5, the invocation fetches exactly once more, at twice
\* the limit, and runs the relevance filter exactly once more, on the new
\* batch; there is no third fetch.
C20_EscalatesOnce ==
  (/\ ToolEnded
   /\ Len(tool.filters) >= 1
   /\ tool.cached = None
   /\ Len(tool.filters[1]) = tool.initial_limit
   /\ BelowHalf(tool.first)) =>
    /\ tool.fetches = <<tool.initial_limit, 2 * tool.initial_limit>>
    /\ Len(tool.filters) = 2
    /\ tool.filters[2] = tool.posts
    /\ tool.posts # tool.filters[1]

\* the time ranges from the narrowest to the widest
RangeOrder == <<"day", "week", "month", "year">>
Narrower(r) ==
  { RangeOrder[i] : i \in { j \in 1 .. Len(RangeOrder) :
      \E k \in j .. Len(RangeOrder) : RangeOrder[k] = r } }

\* C21: for each source the fetch limit get_fetch_limits returns does not
\* decrease as the time range widens (day <= week <= month <= year), and an
\* unknown time range gets the limits of week.
C21_LimitsWiden ==
  tool.pc # "idle" =>
    /\ \A r \in Narrower(tool.time_range) :
         get_fetch_limits(r)[tool.source] <= tool.initial_limit
    /\ tool.time_range \notin TimeRanges =>
         tool.initial_limit = FETCH_LIMITS["week"][tool.source]

\* a tool invoked with an unknown time range fetched with the week limit
C21_Witness ==
  /\ tool.pc \in {"t_fetched", "t_filtered", "t_done"}
  /\ tool.time_range \notin TimeRanges
  /\ tool.fetches # <<>>
  /\ tool.fetches[1] = FETCH_LIMITS["week"][tool.source]

\* C22: the terminal statuses are absorbing: no step changes the status of
\* a Run that is completed or failed, whatever executions interleave; in
\* particular completed is never set to failed and failed never to completed.
C22_TerminalAbsorbing ==
  [][\A i \in Live \cap DOMAIN digests' :
       digests[i].status \in {"completed", "failed"} =>
         digests'[i].status = digests[i].status]_vars

\* an execution of run_analysis_phase for a Run of the store ends in this step
AnalysisEnds(c) ==
  /\ ap[c].pc = "start"
  /\ ap'[c].pc # "start"
  /\ ap[c].digest_id \in Live \cap DOMAIN digests'

C24_AnalysisReadsOwnKey ==
  [][\A c \in Ctx :
       AnalysisEnds(c) =>
         obs'.selected[ap[c].digest_id] =
           {digests[ap[c].digest_id].digest_date}]_vars

\* C25: a store error while the collection phase reads the collector cache
\* counts as a miss for every source: the phase goes on to run the
\* collectors, and the read does not make the Run failed.
C25_CacheReadFailsOpen ==
  [][\A p \in Procs :
       (pc[p] = "k_read" /\ pc'[p] # "k_read") =>
         /\ pc'[p] = "k_gather"
         /\ digests' = digests]_vars

\* C26: on every path through a fetch tool the fetcher is called at most
\* twice and the relevance filter at most twice, and the invocation ends.
C26_TwoCallsAtMostAndEnds ==
  /\ [](Len(tool.fetches) <= 2 /\ Len(tool.filters) <= 2)
  /\ <>ToolEnded

\* an invocation ended after two fetches and two runs of the filter
C26_Witness ==
  /\ ToolEnded
  /\ Len(tool.fetches) = 2
  /\ Len(tool.filters) = 2

\* C27: the fetcher is called again only when all three conditions hold: a
\* first batch served from the fetch cache means no fetcher call at all, and
\* a first batch whose yield_ratio is 0.5 or more (the fail-open 1.0
\* included) or whose size is below the standard limit means no second call.
C27_NoEscalationUnlessAllThree ==
  /\ tool.pc \in {"t_fetched", "t_filtered", "t_done"} =>
       (tool.cached # None => tool.fetches = <<>>)
  /\ (/\ Len(tool.filters) >= 1
      /\ \/ 2 * tool.first.num >= tool.first.den
         \/ Len(tool.filters[1]) < tool.initial_limit) =>
       Len(tool.fetches) <= 1

\* an invocation ended without a second fetch after a full fresh batch of
\* which exactly half was relevant
C27_Witness ==
  /\ tool.pc = "t_done"
  /\ tool.cached = None
  /\ Len(tool.filters) = 1
  /\ Len(tool.filters[1]) = tool.initial_limit
  /\ 2 * tool.first.num = tool.first.den
  /\ tool.fetches = <<tool.initial_limit>>

\* C28: whenever the first freshly fetched batch of fetch_reddit_tool has a
\* yield_ratio below 0.5, the tool refetches at twice the limit: the fetcher
\* and the relevance filter are each called exactly twice.
C28_LowYieldRefetches ==
  (/\ tool.pc = "t_done"
   /\ tool.source = "reddit"
   /\ tool.cached = None
   /\ Len(tool.filters) >= 1
   /\ 2 * tool.first.num < tool.first.den) =>
    /\ tool.fetches = <<tool.initial_limit, 2 * tool.initial_limit>>
    /\ Len(tool.filters) = 2

\* the fetch-cache key of the invocation
ToolKey == <<normalize_query(tool.query), tool.time_range, tool.source>>
\* every item of the list comes from the batch with that number
AllFrom(items, batch) == \A i \in 1 .. Len(items) : items[i][1] = batch

\* C29: after an escalation the relevant items the tool reports and the
\* fetch-cache entry of its key are those of the second batch, not of the
\* first, whatever the second fetch returned.
C29_EscalationUsesSecondBatch ==
  (tool.pc = "t_done" /\ Len(tool.fetches) = 2) =>
    /\ AllFrom(tool.relevant, 2)
    /\ ToolKey \in Keys(fetch_cache) =>
         AllFrom(RowOf(fetch_cache, ToolKey).payload, 2)

\* the positions of the input whose verdict is true
Accepted == { i \in 1 .. Len(tool.items) : tool.response.verdicts[i] }

\* C30: when the classifier answers a boolean vector as long as the input,
\* relevance_filter returns exactly the items whose verdict is true, in
\* input order, with yield_ratio the number of true verdicts over the
\* number of items, a value between 0 and 1; on empty input it returns
\* ([], 1.0) without calling the classifier.
C30_FilterKeepsAccepted ==
  tool.pc = "filtered" =>
    /\ tool.items = <<>> =>
         /\ tool.out.relevant = <<>>
         /\ tool.out.yield_ratio = [num |-> 1, den |-> 1]
         /\ ~tool.out.classified
    /\ (/\ tool.items # <<>>
        /\ tool.response.kind = "vector"
        /\ Len(tool.response.verdicts) = Len(tool.items)) =>
         /\ Len(tool.out.relevant) = Cardinality(Accepted)
         /\ { tool.out.relevant[j] : j \in 1 .. Len(tool.out.relevant) }
              = { tool.items[i] : i \in Accepted }
         /\ \A j, k \in 1 .. Len(tool.out.relevant) :
              j < k => tool.out.relevant[j] < tool.out.relevant[k]
         /\ tool.out.yield_ratio.den > 0
         /\ tool.out.yield_ratio.num * Len(tool.items)
              = tool.out.yield_ratio.den * Cardinality(Accepted)
         /\ 0 <= tool.out.yield_ratio.num
         /\ tool.out.yield_ratio.num <= tool.out.yield_ratio.den

\* a batch of four items of which the second and the fourth were accepted
C30_Witness ==
  /\ tool.pc = "filtered"
  /\ Len(tool.items) = 4
  /\ tool.response.kind = "vector"
  /\ tool.response.verdicts = <<FALSE, TRUE, FALSE, TRUE>>
  /\ tool.out.relevant = <<tool.items[2], tool.items[4]>>
  /\ tool.out.yield_ratio.num * 2 = tool.out.yield_ratio.den

\* no two rows of the table have the same key
OnePerKey(table) == \A r \in table, o \in table : r.key = o.key => r = o

\* the step leaves in the table one row of call'.key, with the payload and
\* the lifetime of the call, and every row of another key as it was
WroteOnly(table, after, ttl) ==
  /\ { r \in after : r.key = call'.key } =
       {Row(call'.key, call'.arg, utcnow + TtlOf(ttl, call'.key[2]))}
  /\ { r \in after : r.key # call'.key } =
       { r \in table : r.key # call'.key }

\* C31: set_cached_fetch and set_cached_analysis are upserts on the composite
\* key: each table holds one entry per key, a write that reaches the store
\* leaves under its key the payload and expires_at it carried, whatever was
\* stored there, the rows of every other key stay as they were, and nothing
\* else changes a table.
C31_UpsertLastWriteWins ==
  [][/\ OnePerKey(fetch_cache') /\ OnePerKey(analysis_cache')
     /\ fetch_cache' # fetch_cache =>
          call'.fn = "set_cached_fetch" /\ call'.fault = "none"
     /\ analysis_cache' # analysis_cache =>
          call'.fn = "set_cached_analysis" /\ call'.fault = "none"
     /\ (call'.fn = "set_cached_fetch" /\ call'.fault = "none"
         /\ utcnow' = utcnow) =>
          WroteOnly(fetch_cache, fetch_cache', FETCH_TTL)
     /\ (call'.fn = "set_cached_analysis" /\ call'.fault = "none"
         /\ utcnow' = utcnow) =>
          WroteOnly(analysis_cache, analysis_cache', ANALYSIS_TTL)]_vars

\* a later write replaced the row of its key, which carries the second
\* payload and an expiry counted from the later time, beside a row of the
\* same query and time range for another source, written first and left as
\* it was
C31_Witness ==
  /\ call.fn = "set_cached_fetch"
  /\ call.fault = "none"
  /\ utcnow = 2 * Pace
  /\ fetch_cache =
       { Row(call.key, Items(0, 2), utcnow + TtlOf(FETCH_TTL, call.key[2])),
         Row(<<call.key[1], call.key[2], "youtube">>, Items(0, 1),
             TtlOf(FETCH_TTL, call.key[2])) }
  /\ call.key[3] = "reddit"

\* the analysis cache holds, for the key of request i, a row that has not
\* expired and has the fields of a report
HeldBy(i) == RowOf(analysis_cache, AnalysisKey(req[i]))
HoldsReport(i) ==
  /\ AnalysisKey(req[i]) \in Keys(analysis_cache)
  /\ utcnow < HeldBy(i).expires_at
  /\ "topic" \in DOMAIN HeldBy(i).payload

\* C32: in analyze_topic without force_refresh, when the analysis cache
\* answers the read and holds an unexpired entry for (normalize(query),
\* time_range) that validates as a report, that entry is returned with
\* cached = true, the agent is not run, none of its tools is called and the
\* analysis cache is not written, whatever another request is doing; with
\* force_refresh the analysis cache is never read and the agent is run.
C32_CachedAnalysisServed ==
  /\ [][\A i \in Reqs :
          (/\ req[i].pc = "a_read"
           /\ req'[i].pc # "a_read"
           /\ req'[i].fault = "none"
           /\ HoldsReport(i)) =>
            /\ req'[i].pc = "a_done"
            /\ req'[i].cached
            /\ ~req'[i].ran
            /\ req'[i].tools = 0
            /\ ~req'[i].wrote
            /\ analysis_cache' = analysis_cache
            /\ fetch_cache' = fetch_cache
            /\ \A f \in DOMAIN HeldBy(i).payload \ {"source"} :
                 req'[i].report[f] = HeldBy(i).payload[f]
     ]_vars
  /\ [](\A i \in Reqs :
          (req[i].pc # "idle" /\ req[i].force_refresh) =>
            /\ ~req[i].read
            /\ req[i].pc # "a_agent" => req[i].ran)

\* a request was served the entry that the other request, made in another
\* spelling, had left after its agent ran fetch_reddit_tool, while the fetch
\* cache holds what that tool fetched
C32_Witness ==
  \E i \in Reqs, o \in Reqs :
    /\ req[i].pc = "a_done"
    /\ ~req[i].force_refresh
    /\ req[i].cached
    /\ ~req[i].ran
    /\ req[i].report.query # req[i].query
    /\ req[o].pc = "a_done"
    /\ req[o].wrote
    /\ req[o].tools = 1
    /\ req[i].report.query = req[o].query
    /\ \E r \in fetch_cache : r.key[3] = "reddit"

\* C33: a report served from the analysis cache carries the user_id of the
\* user who asked for it, and no cached payload has an id, user_id or
\* created_at field.
C33_CacheHoldsNoUserData ==
  /\ \A r \in analysis_cache :
       DOMAIN r.payload \cap {"id", "user_id", "created_at"} = {}
  /\ \A i \in Reqs :
       (req[i].pc = "a_done" /\ req[i].cached) =>
         req[i].report.user_id = req[i].user_id

\* a report whose agent output had an id was cached for one user and served
\* to the other, with the asking user's user_id and no id
C33_Witness ==
  \E i \in Reqs, o \in Reqs :
    /\ req[i].pc = "a_done"
    /\ req[i].cached
    /\ req[i].report.topic = "y"
    /\ req[i].report.id = "none"
    /\ req[i].report.user_id = req[i].user_id
    /\ req[o].pc = "a_done"
    /\ req[o].wrote
    /\ req[i].report.query = req[o].query
    /\ req[o].user_id # req[i].user_id

\* the step answers the pending request of an internal route
Answers ==
  /\ call.fn \in InternalRoutes
  /\ call.status = "pending"
  /\ call'.status # "pending"
\* what the request carried: its header, an absent one counting as empty,
\* and its digest_id, an absent or empty one counting as not given
SentSecret == IF Len(call.headers) = 0 THEN "" ELSE call.headers[1]
Given == Len(call.body) = 1 /\ call.body[1] # NoId
\* the step starts no phase and modifies no Run
NothingStarted ==
  /\ ap' = ap
  /\ pc' = pc
  /\ kp' = kp
  /\ digests' = digests
  /\ cache' = cache

\* C34: POST /internal/analyze and POST /internal/collect schedule their
\* phase for the given digest_id exactly when the x-internal-secret header
\* equals the configured secret and a digest_id is given, whatever the state
\* of the Run and whatever phases are under way; a wrong secret is answered
\* 403 and a missing digest_id 400, and then no phase is started and no Run
\* is modified.
C34_InternalRoutesGuarded ==
  [][Answers =>
       /\ SentSecret # settings.internal_secret =>
            call'.status = "403" /\ NothingStarted
       /\ (SentSecret = settings.internal_secret /\ ~Given) =>
            call'.status = "400" /\ NothingStarted
       /\ (SentSecret = settings.internal_secret /\ Given) =>
            /\ call'.status = "200"
            /\ digests' = digests
            /\ call.fn = "internal_analyze" =>
                 \E c \in Ctx :
                   /\ ap'[c] # ap[c]
                   /\ ap'[c] = StartAnalysis(call.body[1])
                   /\ \A d \in Ctx \ {c} : ap'[d] = ap[d]
            /\ call.fn = "internal_collect" =>
                 \E p \in Procs :
                   /\ pc[p] # "k_read"
                   /\ pc'[p] = "k_read"
                   /\ kp'[p].digest_id = call.body[1]
                   /\ \A q \in Procs \ {p} : pc'[q] = pc[q] /\ kp'[q] = kp[q]
     ]_vars

\* a request with the configured secret and the id of a Run was accepted
\* and its analysis phase started while another analysis phase of the same
\* Run was under way
C34_Witness ==
  /\ call.fn = "internal_analyze"
  /\ call.status = "200"
  /\ call.body = <<1>>
  /\ ap[call.ctx] = StartAnalysis(1)
  /\ \E d \in Ctx \ {call.ctx} : ap[d] = StartAnalysis(1)

\* the health strings of a collector whose collect() raised
FailedStrings == { "failed: " \o r : r \in Reasons }

\* C35: when _run_collectors returns, source_health has one entry for every
\* registered collector and no other key; the entry is "ok (cached)" exactly
\* for the sources served from the cache, "ok" exactly for those whose
\* collect() was invoked and returned, and "failed: <reason>" exactly for
\* those whose collect() was invoked and raised.
C35_HealthCoversRegistry ==
  \A p \in Procs :
    Returned(p) =>
      LET k == kp[p]
          h == k.source_health
          ran(c) == k.calls[c] = 1 /\ c \in DOMAIN k.oc
      IN /\ DOMAIN h = COLLECTOR_REGISTRY
         /\ \A c \in COLLECTOR_REGISTRY :
              /\ h[c] \in {"ok (cached)", "ok"} \cup FailedStrings
              /\ h[c] = "ok (cached)" <=>
                   (c \in DOMAIN k.cached /\ k.calls[c] = 0)
              /\ h[c] = "ok" <=> (ran(c) /\ k.oc[c].exc = "none")
              /\ h[c] \in FailedStrings <=>
                   (ran(c) /\ k.oc[c].exc # "none"
                    /\ h[c] = "failed: " \o k.oc[c].exc)

\* the three kinds of entry side by side, the fresh one with no items
C35_Witness ==
  \E p \in Procs :
    /\ Returned(p)
    /\ \E a, b, c \in COLLECTOR_REGISTRY :
         /\ kp[p].source_health[a] = "ok (cached)"
         /\ kp[p].source_health[b] = "ok"
         /\ kp[p].oc[b].n = 0
         /\ kp[p].source_health[c] \in FailedStrings

\* C36: for one run key, an execution of _run_collectors that starts after a
\* collector's result was written to the collector cache does not invoke
\* that collector, also when the cached list is empty, and the row stays;
\* a collector that raised leaves no row, and an execution that finds no
\* row for a collector invokes it.
C36_CachedCollectorNotRerun ==
  [][\A p \in Procs :
       /\ (pc[p] = "k_read" /\ pc'[p] = "k_gather") =>
            /\ kp'[p].today = clock
            /\ \A c \in COLLECTOR_REGISTRY :
                 /\ <<clock, c>> \in DOMAIN cache <=>
                      c \in DOMAIN kp'[p].cached
                 /\ <<clock, c>> \notin DOMAIN cache <=> c \in kp'[p].to_run
       /\ (pc[p] = "k_gather" /\ pc'[p] # "k_gather") =>
            \A c \in COLLECTOR_REGISTRY :
              /\ kp'[p].calls[c] =
                   IF c \in DOMAIN kp[p].cached THEN 0 ELSE 1
              /\ (c \in kp[p].to_run /\ kp'[p].oc[c].exc # "none") =>
                   (<<kp[p].today, c>> \in DOMAIN cache' =>
                      <<kp[p].today, c>> \in DOMAIN cache)
       /\ \A k \in DOMAIN cache : k[1] = clock => k \in DOMAIN cache'
    ]_vars

\* an execution found the empty list another execution had cached under the
\* run key and did not invoke the collector
C36_Witness ==
  \E p \in Procs :
    /\ Returned(p)
    /\ \E c \in DOMAIN kp[p].cached :
         /\ kp[p].cached[c] = <<>>
         /\ kp[p].calls[c] = 0
    /\ \E q \in Procs \ {p} : kp[q].started

\* the fetch cache holds an unexpired row for the key of the invocation
HoldsBatch ==
  /\ ToolKey \in Keys(fetch_cache)
  /\ utcnow < RowOf(fetch_cache, ToolKey).expires_at

\* the step is a fetch by the invocation with locals t before and u after it
Fetched(t, u) == Len(u.fetches) = Len(t.fetches) + 1

\* the step writes the batch that invocation has just fetched, not an empty
\* one, under the key
WroteFetched(t, u) ==
  /\ Fetched(t, u)
  /\ Len(u.posts) > 0
  /\ RowOf(fetch_cache', ToolKey).payload = u.posts

\* the invocation, when its cache check finds no unexpired entry, goes on to
\* call the fetcher with the limit of its time range (the call fetch_youtube
\* rejects is the end of the invocation); a fault of the cache client ends it
\* before
FetchesAgain(t, u) ==
  /\ (t.pc = "t_start" /\ u.pc # "t_start" /\ ~HoldsBatch) =>
        u.pc \in {"t_miss", "t_raised"}
  /\ (t.pc = "t_miss" /\ u.pc # "t_miss") =>
        \/ u.fetches = <<t.initial_limit>>
        \/ u.pc = "t_raised" /\ t.source = "youtube"

\* C37: the fetch tools never write an empty batch to the fetch cache: a
\* step changes the cache only by writing, under the key, the non-empty
\* batch the invocation taking the step has just fetched, so after a fetch
\* that returned nothing the entry is as it was; and an invocation for the
\* key that finds no unexpired entry fetches from the source again.  Two
\* invocations for the key run at the same time.
C37_EmptyBatchNotCached ==
  [][/\ fetch_cache' # fetch_cache =>
          /\ Keys(fetch_cache') = Keys(fetch_cache) \cup {ToolKey}
          /\ \A k \in Keys(fetch_cache) \ {ToolKey} :
               RowOf(fetch_cache', k) = RowOf(fetch_cache, k)
          /\ WroteFetched(tool, tool') \/ WroteFetched(other, other')
     /\ (Fetched(tool, tool') /\ Len(tool'.posts) = 0) =>
          fetch_cache' = fetch_cache
     /\ (Fetched(other, other') /\ Len(other'.posts) = 0) =>
          fetch_cache' = fetch_cache
     /\ FetchesAgain(tool, tool')
     /\ FetchesAgain(other, other')
    ]_vars

\* the first fetch of an invocation returned nothing, the expired entry of
\* the key is still the one held before, and the other invocation for the
\* key has found no entry and is about to fetch
C37_Witness ==
  /\ tool.pc = "t_done"
  /\ tool.ret = "no results"
  /\ Len(tool.fetches) = 1
  /\ tool.posts = <<>>
  /\ ToolKey \in Keys(fetch_cache)
  /\ RowOf(fetch_cache, ToolKey).expires_at <= utcnow
  /\ RowOf(fetch_cache, ToolKey).payload = Items(0, tool.initial_limit)
  /\ other.pc = "t_miss"
====
